---- MODULE Spec2Model ----
(***************************************************************************)
(* ASM2464PD firmware emulator: Memory (emulate/memory.py), the peripheral *)
(* state HardwareState (emulate/hardware.py) and the Emulator facade       *)
(* (emulate/emu.py).  The 8051 interpreter (cpu.py) is not part of the     *)
(* sources at hand; its step is modelled from the specification, sec. 4.3. *)
(*                                                                         *)
(* Python objects are records, methods are operators from a record to the  *)
(* record after the call (and the returned value), so that a method which  *)
(* calls another is the composition of the two operators.                  *)
(***************************************************************************)
EXTENDS Integers, Sequences, FiniteSets, TLC

(***************************************************************************)
(* Bounds of the model.                                                    *)
(***************************************************************************)
\* the clock specification stops stepping once hw.cycles has passed this
MaxCycles == 2003
\* number of timer periods the clock specification follows
MaxPeriods == 2
\* the interrupt specification stops stepping once hw.cycles has passed this
MaxIrqCycles == 1010
\* a harness stops reading an address after this many polls of it
MaxPolls == 12
\* number of direct accesses (reads, writes, resets) a harness run makes
MaxOps == 6
\* half-width of the windows in which the clock specifications vary the
\* instruction lengths
Window == 5
MaxLatchReads == 4
MaxRunCycles == 14
MaxCalls == 2
SpinLimit == 3

(***************************************************************************)
(* Program constants.                                                      *)
(***************************************************************************)
SYNC_FLAG_CLEAR_AFTER == 5
auto_ready_threshold == 10
\* "if self.init_stage == 0 and self.cycles > 1000"
INIT_STAGE_CYCLES == 1000
\* "if self.cycles % 1000 == 0 and self.cycles > 0"
TIMER_PERIOD == 1000
\* _bank_reg_read, _cmd_engine_status_read, _busy_reg_read, _timer_csr_read
POLL_CLEAR_AFTER == 3
\* _link_state_read: "count >= 2"
LINK_READY_AFTER == 2
\* _link_state_write: "write_count >= 10"
LINK_WRITE_LIMIT == 10

(***************************************************************************)
(* Bytes and Python's bitwise operators on them.                           *)
(***************************************************************************)
Bit(v, i) == (v \div (2 ^ i)) % 2

\* v | (1 << i)
SetBit(v, i) == IF Bit(v, i) = 1 THEN v ELSE v + 2 ^ i

\* v & ~(1 << i)
ClearBit(v, i) == IF Bit(v, i) = 1 THEN v - 2 ^ i ELSE v

\* a & b on the low n bits
RECURSIVE AndBits(_, _, _)
AndBits(a, b, n) ==
    IF n = 0 THEN 0
    ELSE (a % 2) * (b % 2) + 2 * AndBits(a \div 2, b \div 2, n - 1)

\* a & ~b, for bytes a and b
AndNot8(a, b) == a - AndBits(a, b, 8)

(***************************************************************************)
(* Addresses.  The address spaces are sampled: every address below stands  *)
(* for one kind of location the code treats differently.                   *)
(***************************************************************************)
\* hardware.py, create_hardware_hooks: mmio_ranges (start inclusive, end exclusive)
mmio_ranges ==
    { <<1760, 1792>>,   \* 0x06E0, 0x0700
      <<1968, 2048>>,   \* 0x07B0, 0x0800
      <<2544, 3072>>,   \* 0x09F0, 0x0C00
      <<28672, 28928>>, \* 0x7000, 0x7100
      <<4608, 4864>>,   \* 0x1200, 0x1300
      <<36864, 37888>>, \* 0x9000, 0x9400
      <<37568, 37632>>, \* 0x92C0, 0x9300
      <<45568, 47360>>, \* 0xB200, 0xB900
      <<49152, 49408>>, \* 0xC000, 0xC100
      <<49664, 49920>>, \* 0xC200, 0xC300
      <<50176, 50688>>, \* 0xC400, 0xC600
      <<50688, 50944>>, \* 0xC600, 0xC700
      <<51200, 51456>>, \* 0xC800, 0xC900
      <<51712, 51968>>, \* 0xCA00, 0xCB00
      <<52224, 52736>>, \* 0xCC00, 0xCE00
      <<52736, 52992>>, \* 0xCE00, 0xCF00
      <<58112, 58368>>, \* 0xE300, 0xE400
      <<58368, 58624>>, \* 0xE400, 0xE500
      <<58880, 59136>>, \* 0xE600, 0xE700
      <<59136, 59392>>, \* 0xE700, 0xE800
      <<60416, 60672>>  \* 0xEC00, 0xED00
    }

InMmio(addr) == \E r \in mmio_ranges : r[1] <= addr /\ addr < r[2]

\* XDATA addresses the model keeps a byte for
A_RAM      == 4096     \* 0x1000  plain RAM, no hook
A_0AE3     == 2787     \* 0x0AE3  G_STATE_FLAG_0AE3
A_0AE5     == 2789     \* 0x0AE5  G_TLP_INIT_FLAG
A_0AF0     == 2800     \* 0x0AF0  G_FLASH_CFG
A_LINK     == 2862     \* 0x0B2E  link state
A_BANK2    == 4661     \* 0x1235  bank register
A_SYNC     == 4664     \* 0x1238  bank register and sync flag
A_FLASH_LO == 28672    \* 0x7000  flash buffer, hooked
A_FLASH_HI == 32767    \* 0x7FFF  flash buffer, not hooked
A_USB      == 36864    \* 0x9000  USB status
A_USB_SPD  == 37088    \* 0x90E0
A_USB_LINK == 37120    \* 0x9100
A_USB_PHY  == 37125    \* 0x9105
A_PCIE_TRG == 45652    \* 0xB254
A_PCIE     == 45718    \* 0xB296
A_PCIE_LNK == 46208    \* 0xB480
A_UART_THR == 49153    \* 0xC001
A_UART_LSR == 49161    \* 0xC009
A_NVME     == 50194    \* 0xC412
A_INT_SYS  == 51206    \* 0xC806
A_INT_PCIE == 51210    \* 0xC80A
A_FLASH_CSR == 51369   \* 0xC8A9
A_FLASH_CMD == 51370   \* 0xC8AA
A_BUSY     == 51384    \* 0xC8B8
A_DMA      == 51414    \* 0xC8D6
A_TIMER0   == 52241    \* 0xCC11
A_TIMER1   == 52247    \* 0xCC17
A_TIMER2   == 52253    \* 0xCC1D
A_TIMER3   == 52259    \* 0xCC23
A_TDMA     == 52361    \* 0xCC89  no default, no callback
A_PHY      == 52529    \* 0xCD31
A_DBG_MASK == 52829    \* 0xCE5D
A_CMD_ENG  == 58396    \* 0xE41C

XAddrs ==
    { A_RAM, A_0AE3, A_0AE5, A_0AF0, A_LINK, A_BANK2, A_SYNC, A_FLASH_LO,
      A_FLASH_HI, A_USB, A_USB_SPD, A_USB_LINK, A_USB_PHY, A_PCIE_TRG, A_PCIE,
      A_PCIE_LNK, A_UART_THR, A_UART_LSR, A_NVME, A_INT_SYS, A_INT_PCIE,
      A_FLASH_CSR, A_FLASH_CMD, A_BUSY, A_DMA, A_TIMER0, A_TIMER1, A_TIMER2,
      A_TIMER3, A_TDMA, A_PHY, A_DBG_MASK, A_CMD_ENG }

\* a register the dict hw.regs has no entry for
NoReg == -1

(***************************************************************************)
(* HardwareState (hardware.py).                                            *)
(***************************************************************************)
\* _init_defaults: the entries of hw.regs for the sampled addresses
_init_defaults ==
    [a \in XAddrs |->
        CASE a = A_USB       -> 0
          [] a = A_USB_SPD   -> 0
          [] a = A_USB_LINK  -> 0
          [] a = A_USB_PHY   -> 0
          [] a = A_NVME      -> 2
          [] a = A_PCIE      -> 2
          [] a = A_PCIE_LNK  -> 1
          [] a = A_DMA       -> 4
          [] a = A_FLASH_CSR -> 0
          [] a = A_BUSY      -> 0
          [] a = A_UART_LSR  -> 96
          [] a = A_TIMER0    -> 0
          [] a = A_TIMER1    -> 0
          [] a = A_TIMER2    -> 0
          [] a = A_TIMER3    -> 0
          [] a = A_0AF0      -> 1
          [] a = A_0AE3      -> 0
          [] a = A_LINK      -> 1
          [] a = A_BANK2     -> 0
          [] a = A_SYNC      -> 0
          [] a = A_INT_SYS   -> 0
          [] a = A_INT_PCIE  -> 64
          [] a = A_CMD_ENG   -> 0
          [] a = A_DBG_MASK  -> 255
          [] a = A_PHY       -> 1
          [] OTHER           -> NoReg]

\* HardwareState(usb_connect_delay = d): the dataclass defaults, then __post_init__
\* (write_counts, dispatcher_count and pd_handler_triggered are the attributes
\* the code creates on first use; timer_events is an observation counter)
HardwareState(d) ==
    [ cycles            |-> 0,
      init_stage        |-> 0,
      pcie_link_up      |-> FALSE,
      usb_connected     |-> FALSE,
      usb_connect_delay |-> d,
      poll_counts       |-> [a \in XAddrs |-> 0],
      regs              |-> _init_defaults,
      write_counts      |-> [a \in XAddrs |-> 0],
      dispatcher_count  |-> 0,
      pd_handler_triggered |-> FALSE,
      timer_events      |-> 0 ]

\* self.regs.get(addr, dflt)
RegGet(h, addr, dflt) == IF h.regs[addr] = NoReg THEN dflt ELSE h.regs[addr]

SetReg(h, addr, v) == [h EXCEPT !.regs[addr] = v]

\* what a read callback hands back: the state after it and the value returned
Ret(h, v) == [hw |-> h, value |-> v]

TimerCsrAddrs == {A_TIMER0, A_TIMER1, A_TIMER2, A_TIMER3}
LinkStateAddrs == {A_LINK}
\* range(0x1200, 0x1300)
IsBankReg(addr) == 4608 <= addr /\ addr < 4864

_link_state_read(h, addr) ==
    IF RegGet(h, addr, 0) \in {0, 1} /\ h.poll_counts[addr] >= LINK_READY_AFTER
    THEN Ret(SetReg(h, addr, 2), 2)
    ELSE Ret(h, RegGet(h, addr, 0))

\* a latch read that leaves the timer-event bit set
_int_system_read_keeps_bit(h, addr) == Ret(h, RegGet(h, addr, 0))

_int_system_read(h, addr) ==
    IF Bit(RegGet(h, addr, 0), 0) = 1
    THEN Ret(SetReg(h, addr, ClearBit(RegGet(h, addr, 0), 0)), RegGet(h, addr, 0))
    ELSE Ret(h, RegGet(h, addr, 0))

_pcie_status_read(h, addr) == Ret(h, 2)

_flash_csr_read(h, addr) == Ret(h, 0)

_dma_status_read(h, addr) == Ret(h, 4)

_cmd_engine_status_read(h, addr) ==
    IF h.poll_counts[addr] >= POLL_CLEAR_AFTER /\ Bit(RegGet(h, addr, 0), 0) = 1
    THEN Ret(SetReg(h, addr, ClearBit(RegGet(h, addr, 0), 0)),
             ClearBit(RegGet(h, addr, 0), 0))
    ELSE Ret(h, RegGet(h, addr, 0))

_busy_reg_read(h, addr) ==
    IF h.poll_counts[addr] >= POLL_CLEAR_AFTER /\ Bit(RegGet(h, addr, 0), 0) = 1
    THEN Ret(SetReg(h, addr, ClearBit(RegGet(h, addr, 0), 0)),
             ClearBit(RegGet(h, addr, 0), 0))
    ELSE Ret(h, RegGet(h, addr, 0))

_timer_csr_read(h, addr) ==
    IF Bit(RegGet(h, addr, 0), 0) = 1 /\ h.poll_counts[addr] >= POLL_CLEAR_AFTER
    THEN Ret(SetReg(h, addr, SetBit(RegGet(h, addr, 0), 1)),
             SetBit(RegGet(h, addr, 0), 1))
    ELSE Ret(h, RegGet(h, addr, 0))

\* a bank register read that never completes the trigger
_bank_reg_read_never_clears(h, addr) == Ret(h, RegGet(h, addr, 0))

_bank_reg_read(h, addr) ==
    IF h.poll_counts[addr] >= POLL_CLEAR_AFTER /\ Bit(RegGet(h, addr, 0), 0) = 1
    THEN Ret(SetReg(h, addr, ClearBit(RegGet(h, addr, 0), 0)),
             ClearBit(RegGet(h, addr, 0), 0))
    ELSE Ret(h, RegGet(h, addr, 0))

_phy_status_read(h, addr) ==
    Ret(h, ClearBit(SetBit(RegGet(h, addr, 1), 0), 1))

\* ---- write callbacks: each returns the state after the call
_uart_tx(h, addr, value) == h

_link_state_write(h, addr, value) ==
    IF value = 1 /\ h.write_counts[addr] + 1 >= LINK_WRITE_LIMIT
    THEN [h EXCEPT !.regs[addr] = 2,
                   !.write_counts[addr] = 0,
                   !.poll_counts[addr] = 0]
    ELSE [h EXCEPT !.regs[addr] = value,
                   !.write_counts[addr] = @ + 1,
                   !.poll_counts[addr] = 0]

_pcie_trigger_write(h, addr, value) == SetReg(h, A_PCIE, 2)

\* self.regs[addr] &= ~value
_pcie_status_write(h, addr, value) == SetReg(h, addr, AndNot8(h.regs[addr], value))

_flash_cmd_write(h, addr, value) == SetReg(h, A_FLASH_CSR, 0)

\* a timer CSR write that only stores the byte
_timer_csr_write_store_only(h, addr, value) == SetReg(h, addr, value)

_timer_csr_write(h, addr, value) ==
    [h EXCEPT !.regs[addr] = IF Bit(value, 2) = 1 THEN ClearBit(value, 1)
                                ELSE value,
              !.poll_counts[addr] = 0]

_bank_reg_write(h, addr, value) ==
    [h EXCEPT !.regs[addr] = value, !.poll_counts[addr] = 0]

_phy_status_write(h, addr, value) == SetReg(h, addr, value)

_state_flag_write(h, addr, value) ==
    SetReg(h, addr,
           IF value # RegGet(h, addr, 0) /\ h.usb_connected /\ value # 0
           THEN 0 ELSE value)

\* _setup_callbacks: the addresses with a read callback, and the callback of each
HasReadCallback(addr) ==
    \/ addr \in LinkStateAddrs \cup TimerCsrAddrs
    \/ addr \in {A_PCIE, A_FLASH_CSR, A_CMD_ENG, A_DMA, A_BUSY, A_INT_SYS, A_PHY}
    \/ IsBankReg(addr)

read_callbacks(h, addr) ==
    CASE addr \in LinkStateAddrs -> _link_state_read(h, addr)
      [] addr = A_PCIE           -> _pcie_status_read(h, addr)
      [] addr = A_FLASH_CSR      -> _flash_csr_read(h, addr)
      [] addr = A_CMD_ENG        -> _cmd_engine_status_read(h, addr)
      [] addr = A_DMA            -> _dma_status_read(h, addr)
      [] addr = A_BUSY           -> _busy_reg_read(h, addr)
      [] addr = A_INT_SYS        -> _int_system_read(h, addr)
      [] addr \in TimerCsrAddrs  -> _timer_csr_read(h, addr)
      [] IsBankReg(addr)         -> _bank_reg_read(h, addr)
      [] addr = A_PHY            -> _phy_status_read(h, addr)

\* _setup_callbacks: the addresses with a write callback (0xC000 is not sampled)
HasWriteCallback(addr) ==
    \/ addr \in LinkStateAddrs \cup TimerCsrAddrs
    \/ addr \in {A_UART_THR, A_PCIE_TRG, A_PCIE, A_FLASH_CMD, A_PHY, A_0AE3}
    \/ IsBankReg(addr)

write_callbacks(h, addr, value) ==
    CASE addr = A_UART_THR       -> _uart_tx(h, addr, value)
      [] addr \in LinkStateAddrs -> _link_state_write(h, addr, value)
      [] addr = A_PCIE_TRG       -> _pcie_trigger_write(h, addr, value)
      [] addr = A_PCIE           -> _pcie_status_write(h, addr, value)
      [] addr = A_FLASH_CMD      -> _flash_cmd_write(h, addr, value)
      [] addr \in TimerCsrAddrs  -> _timer_csr_write(h, addr, value)
      [] IsBankReg(addr)         -> _bank_reg_write(h, addr, value)
      [] addr = A_PHY            -> _phy_status_write(h, addr, value)
      [] addr = A_0AE3           -> _state_flag_write(h, addr, value)

\* a read that never turns an unknown register ready
read_polled_never_ready(h, addr) ==
    IF h.regs[addr] # NoReg THEN Ret(h, h.regs[addr]) ELSE Ret(h, 0)

\* HardwareState.read
\* the part of read after "self.poll_counts[addr] = ... + 1"
read_polled(h, addr) ==
    IF HasReadCallback(addr) THEN read_callbacks(h, addr)
    ELSE IF h.regs[addr] # NoReg THEN Ret(h, h.regs[addr])
    ELSE IF h.poll_counts[addr] >= auto_ready_threshold THEN Ret(h, 255)
    ELSE Ret(h, 0)

read(h, addr) == read_polled([h EXCEPT !.poll_counts[addr] = @ + 1], addr)

\* HardwareState.write
write(h, addr, value) ==
    IF HasWriteCallback(addr) THEN write_callbacks(h, addr, value)
    ELSE SetReg(h, addr, value)

\* HardwareState.tick(cycles, cpu), one operator per statement group, in the
\* order the code runs them.
\* self.cycles += cycles
tick_cycles(h, cycles) == [h EXCEPT !.cycles = @ + cycles]

\* "Advance init stage after enough cycles"
tick_init(h) ==
    IF h.init_stage = 0 /\ h.cycles > INIT_STAGE_CYCLES
    THEN [h EXCEPT !.init_stage = 1,
                   !.pcie_link_up = TRUE,
                   !.regs[A_SYNC] = 1]
    ELSE h

\* the USB plug-in event
tick_usb(h) ==
    IF h.init_stage = 1 /\ h.cycles > h.usb_connect_delay
    THEN [h EXCEPT !.init_stage = 2,
                   !.usb_connected = TRUE,
                   !.regs[A_USB] = 128,
                   !.regs[A_USB_SPD] = 2,
                   !.regs[A_USB_LINK] = 2,
                   !.regs[A_USB_PHY] = 255,
                   !.regs[A_INT_PCIE] = SetBit(@, 6)]
    ELSE h

\* the task dispatcher entry is seen after the plug-in
dispatcher_seen(h, c) ==
    /\ h.usb_connected
    /\ h.init_stage = 2
    /\ h.cycles > h.usb_connect_delay + 2000
    /\ c.pc = 768
    /\ ~h.pd_handler_triggered

\* "Force PD handler execution after USB plug-in": what it does to the
\* peripheral (of the registers it writes, 0x0AF0 and 0xC80A are sampled)
tick_pd_hw(h, c) ==
    IF ~dispatcher_seen(h, c) THEN h
    ELSE IF h.dispatcher_count + 1 >= 5
    THEN [h EXCEPT !.dispatcher_count = @ + 1,
                   !.pd_handler_triggered = TRUE,
                   !.regs[A_0AF0] = 1,
                   !.regs[A_INT_PCIE] = 64]
    ELSE [h EXCEPT !.dispatcher_count = @ + 1]

\* ... and to the CPU: cpu.DPTR = 0xAE89
tick_pd_cpu(h, c) ==
    IF dispatcher_seen(h, c) /\ h.dispatcher_count + 1 >= 5
    THEN [c EXCEPT !.DPTR = 44681]
    ELSE c

\* "Simulate timer interrupts every ~1000 cycles"; timer_events counts the
\* times this branch ran
tick_timer(h, c) ==
    IF h.cycles % TIMER_PERIOD = 0 /\ h.cycles > 0
    THEN [hw  |-> [h EXCEPT !.regs[A_INT_SYS] = SetBit(@, 0),
                            !.timer_events = @ + 1],
          cpu |-> [c EXCEPT !.pending["ext1"] = TRUE]]
    ELSE [hw |-> h, cpu |-> c]

tick_late(h, c) == tick_timer(tick_pd_hw(h, c), tick_pd_cpu(h, c))

\* returns the peripheral and the CPU after the call
tick(h, c, cycles) == tick_late(tick_usb(tick_init(tick_cycles(h, cycles))), c)

(***************************************************************************)
(* Memory (memory.py).                                                     *)
(***************************************************************************)
SYNC_FLAG_ADDRS == {A_SYNC}

\* IDATA and SFR locations the model keeps a byte for
IAddrs == {32, 47, 106}
SFR_SP == 129
SFR_DPX == 150
SFR_IE == 168
SFR_IP == 184
SAddrs == {SFR_SP, SFR_DPX, SFR_IE, SFR_IP}

\* len(self.code), and the file offset bank 1 starts at
CODE_SIZE == 98304

BANK1_FILE_BASE == 65387

\* the CODE addresses sampled: both ends of the two halves, 0x9000, and
\* 0xFF6B, whose bank-0 byte is the first byte of bank 1
CAddrs == {0, 32767, 32768, 36864, 65387, 65535}

\* the places of the firmware file these addresses are read from
FileOffsets ==
    CAddrs \cup { BANK1_FILE_BASE + (a - 32768) : a \in { c \in CAddrs : c >= 32768 } }

\* Memory(): zero-filled arrays, empty hook tables
Memory ==
    [ code            |-> [o \in FileOffsets |-> 0],
      xdata           |-> [a \in XAddrs |-> 0],
      idata           |-> [a \in IAddrs |-> 0],
      sfr             |-> [a \in SAddrs |-> 0],
      sync_flag_polls |-> [a \in SYNC_FLAG_ADDRS |-> 0],
      hooks           |-> FALSE ]

\* create_hardware_hooks(memory, hw): a read and a write hook on every MMIO address
create_hardware_hooks(m) == [m EXCEPT !.hooks = TRUE]

Hooked(m, addr) == m.hooks /\ InMmio(addr)

\* the result of a read hook, with the memory it leaves alone
Hook(m, r) == [mem |-> m, hw |-> r.hw, value |-> r.value]

\* a read_xdata that invokes the read hook a second time
read_xdata_hook_twice(m, h, addr) ==
    IF Hooked(m, addr)
    THEN Hook(m, read(read(h, addr).hw, addr))
    ELSE [mem |-> m, hw |-> h, value |-> m.xdata[addr]]

\* Memory.read_xdata: the memory and peripheral after the access, and the byte read
read_xdata(m, h, addr) ==
    IF Hooked(m, addr)
    THEN Hook(m, read(h, addr))
    ELSE IF addr \in SYNC_FLAG_ADDRS
    THEN LET value == m.xdata[addr]
             polls == m.sync_flag_polls[addr] + 1
         IN  IF Bit(value, 0) = 1
             THEN IF polls >= SYNC_FLAG_CLEAR_AFTER
                  THEN [mem |-> [m EXCEPT !.xdata[addr] = 0,
                                          !.sync_flag_polls[addr] = 0],
                        hw |-> h, value |-> 0]
                  ELSE [mem |-> [m EXCEPT !.sync_flag_polls[addr] = polls],
                        hw |-> h, value |-> value]
             ELSE [mem |-> m, hw |-> h, value |-> value]
    ELSE [mem |-> m, hw |-> h, value |-> m.xdata[addr]]

\* Memory.write_xdata
write_xdata(m, h, addr, value) ==
    IF Hooked(m, addr)
    THEN [mem |-> m, hw |-> write(h, addr, value)]
    ELSE [mem |-> [m EXCEPT !.xdata[addr] = value], hw |-> h]

\* Memory.write_sfr (no SFR hook is ever installed)
write_sfr(m, addr, value) == [m EXCEPT !.sfr[addr] = value]

\* Memory.load_firmware(data), offset 0: data is a file of data.len bytes
load_firmware(m, data) ==
    [m EXCEPT !.code = [o \in FileOffsets |->
                           IF o < data.len /\ o < CODE_SIZE THEN data.bytes[o]
                           ELSE m.code[o]]]

\* self.code[file_addr] behind its length test
code_at(m, file_addr) == IF file_addr < CODE_SIZE THEN m.code[file_addr] ELSE 255

\* a read_code that never looks at the bank register
read_code_bank0_only(m, addr) == code_at(m, addr % 65536)

\* Memory.read_code
read_code(m, addr) ==
    IF addr % 65536 >= 32768 /\ Bit(m.sfr[SFR_DPX], 0) = 1
    THEN code_at(m, BANK1_FILE_BASE + ((addr % 65536) - 32768))
    ELSE code_at(m, addr % 65536)

\* Memory.read_sfr, Memory.read_idata (no SFR or IDATA hook is ever installed)
read_sfr(m, addr) == m.sfr[addr]

read_idata(m, addr) == m.idata[addr]

\* Memory.read_bit, as 0 or 1
read_bit(m, bit_addr) ==
    IF bit_addr < 128
    THEN Bit(m.idata[32 + (bit_addr \div 8)], bit_addr % 8)
    ELSE Bit(read_sfr(m, bit_addr - (bit_addr % 8)), bit_addr % 8)

\* x |= (1 << pos) or x &= ~(1 << pos)
PutBit(x, pos, value) == IF value = 1 THEN SetBit(x, pos) ELSE ClearBit(x, pos)

\* a write_bit that stores the mask instead of merging it into the byte
write_bit_stores_mask(m, bit_addr, value) ==
    IF bit_addr < 128
    THEN [m EXCEPT !.idata[32 + (bit_addr \div 8)] = PutBit(0, bit_addr % 8, value)]
    ELSE write_sfr(m, bit_addr - (bit_addr % 8), PutBit(0, bit_addr % 8, value))

\* Memory.write_bit
write_bit(m, bit_addr, value) ==
    IF bit_addr < 128
    THEN [m EXCEPT !.idata[32 + (bit_addr \div 8)] = PutBit(@, bit_addr % 8, value)]
    ELSE write_sfr(m, bit_addr - (bit_addr % 8),
                   PutBit(read_sfr(m, bit_addr - (bit_addr % 8)), bit_addr % 8, value))

\* range(0x7000, 0x8000)
IsFlashBuf(addr) == 28672 <= addr /\ addr < 32768

\* Memory.reset
Memory_reset(m) ==
    [m EXCEPT !.idata = [a \in IAddrs |-> 0],
              !.sfr = [a \in SAddrs |-> IF a = SFR_SP THEN 7 ELSE 0],
              !.xdata = [a \in XAddrs |->
                            IF IsFlashBuf(a) THEN 255
                            ELSE IF a = A_0AE5 THEN 0
                            ELSE IF a = A_0AF0 THEN 63
                            ELSE m.xdata[a]]]

(***************************************************************************)
(* CPU8051 (cpu.py is not among the sources: modelled from the             *)
(* specification, sections 3 and 4.3).  The program counter is sampled:    *)
(* the two interrupt vectors the code arms, the task dispatcher entry that *)
(* tick watches, and one label for all other firmware code.  The return    *)
(* addresses an interrupt pushes on the IDATA stack are kept as a          *)
(* sequence.                                                               *)
(***************************************************************************)
Sources == <<"ext0", "timer0", "ext1", "timer1", "serial", "timer2">>
SourceSet == {Sources[i] : i \in 1..Len(Sources)}
Order(s) == CHOOSE i \in 1..Len(Sources) : Sources[i] = s
\* 0x0003, 0x000B, 0x0013, 0x001B, 0x0023, 0x002B
Vector(s) == 3 + 8 * (Order(s) - 1)
\* the source's enable bit in IE and its priority bit in IP
SourceBit(s) == Order(s) - 1

PC_RESET == 0
PC_MAIN == 256
PC_DISPATCHER == 768
FwPCs == {PC_MAIN, PC_DISPATCHER}

CPU8051 ==
    [ pc      |-> PC_RESET,
      cycles  |-> 0,
      halted  |-> FALSE,
      pending |-> [s \in SourceSet |-> FALSE],
      in_isr  |-> {},
      rstack  |-> <<>>,
      DPTR    |-> 0 ]

\* CPU8051.reset
CPU_reset(c) == CPU8051

\* priority level of a source: IP bit set = high (1), clear = low (0)
Level(m, s) == Bit(m.sfr[SFR_IP], SourceBit(s))

\* a pending source that may be vectored to at this fetch
Eligible(c, m, s) ==
    /\ c.pending[s]
    /\ Bit(m.sfr[SFR_IE], 7) = 1
    /\ Bit(m.sfr[SFR_IE], SourceBit(s)) = 1
    /\ \A l \in c.in_isr : l < Level(m, s)

\* the vector selected at this fetch: the first eligible source in the
\* canonical order, "none" when there is none
Selected(c, m) ==
    IF \E s \in SourceSet : Eligible(c, m, s)
    THEN CHOOSE s \in SourceSet :
            /\ Eligible(c, m, s)
            /\ \A t \in SourceSet : Eligible(c, m, t) => Order(s) <= Order(t)
    ELSE "none"

\* the instructions the firmware may execute, by what they touch
Bytes == {0, 1, 3, 4}
IEValues == {0, 4, 129, 132, 133}
IPValues == {0, 1, 4}
CycleLens == {1, 2, 4}

\* interrupt entry: push the return PC, clear the flag, mark the level, jump
Dispatch(c, m, s) ==
    [c EXCEPT !.pc = Vector(s),
              !.pending[s] = FALSE,
              !.in_isr = @ \cup {Level(m, s)},
              !.rstack = Append(@, c.pc)]

\* the highest level in service
TopLevel(c) == CHOOSE l \in c.in_isr : \A k \in c.in_isr : k <= l

\* the machine after a MOVX, whose memory access left x
Retire(c, x) == [cpu |-> [c EXCEPT !.pc = PC_MAIN], mem |-> x.mem, hw |-> x.hw]

\* execute one decoded instruction
Execute(c, m, h, ins) ==
    CASE ins.op = "other" ->
            [cpu |-> [c EXCEPT !.pc = ins.target], mem |-> m, hw |-> h]
      [] ins.op = "movx_w" ->
            Retire(c, write_xdata(m, h, ins.addr, ins.value))
      [] ins.op = "movx_r" ->
            Retire(c, read_xdata(m, h, ins.addr))
      [] ins.op = "mov_sfr" ->
            [cpu |-> [c EXCEPT !.pc = PC_MAIN],
             mem |-> write_sfr(m, ins.addr, ins.value), hw |-> h]
      [] ins.op = "reti" ->
            [cpu |-> [c EXCEPT !.pc = c.rstack[Len(c.rstack)],
                               !.rstack = SubSeq(@, 1, Len(@) - 1),
                               !.in_isr = @ \ {TopLevel(c)}],
             mem |-> m, hw |-> h]

\* the cycles of the step are charged to the CPU and reported
Charge(x, cycles) ==
    [cpu |-> [x.cpu EXCEPT !.cycles = @ + cycles],
     mem |-> x.mem, hw |-> x.hw, cycles |-> cycles]

\* interrupt entry to source s, or the instruction when s is "none"
Fetch(c, m, h, ins, s) ==
    IF s # "none"
    THEN [cpu |-> Dispatch(c, m, s), mem |-> m, hw |-> h]
    ELSE Execute(c, m, h, ins)

\* CPU8051.step: interrupt check before decoding, then one instruction;
\* returns the machine after it and the cycles used
CPU_step(c, m, h, ins) ==
    Charge(Fetch(c, m, h, ins, Selected(c, m)), ins.cycles)

(***************************************************************************)
(* Emulator (emu.py).                                                      *)
(***************************************************************************)
\* the emulator after cpu.step left memory m and hw.tick returned t
Stepped(n, m, t) == [mem |-> m, hw |-> t.hw, cpu |-> t.cpu, inst_count |-> n + 1]

\* self.inst_count += 1; self.hw.tick(cycles, self.cpu)
Ticked(n, r) == Stepped(n, r.mem, tick(r.hw, r.cpu, r.cycles))

\* a step whose tick is handed the CPU as it was before cpu.step
step_stale_cpu(e, ins) ==
    IF e.cpu.halted THEN e
    ELSE Stepped(e.inst_count, e.mem,
                 tick(e.hw, e.cpu, CPU_step(e.cpu, e.mem, e.hw, ins).cycles))

\* Emulator.step: the emulator after one call with the CPU about to run ins
\* (last_pc, a trace aid nothing reads back, is left out)
step(e, ins) ==
    IF e.cpu.halted THEN e
    ELSE Ticked(e.inst_count, CPU_step(e.cpu, e.mem, e.hw, ins))

\* Emulator.reset
reset(e) ==
    [e EXCEPT !.mem = write_sfr(Memory_reset(e.mem), SFR_SP, 7),
              !.cpu = CPU_reset(e.cpu),
              !.inst_count = 0]

\* Emulator.__init__, with the peripheral's usb_connect_delay set to d
Emulator(d) ==
    [ mem |-> create_hardware_hooks(Memory), hw |-> HardwareState(d),
      cpu |-> CPU8051, inst_count |-> 0 ]

\* USBDevicePassthrough.handle_control_transfer, the arming of the request:
\* cpu._ext0_pending = True, then IE |= 0x81 (the step bursts that follow are
\* Emulator.step calls)
trigger_ext0(e) ==
    [e EXCEPT !.cpu.pending["ext0"] = TRUE,
              !.mem = write_sfr(e.mem, SFR_IE, SetBit(SetBit(e.mem.sfr[SFR_IE], 0), 7))]

(***************************************************************************)
(* State.                                                                  *)
(***************************************************************************)
VARIABLES
    mem,         \* Emulator.memory
    hw,          \* Emulator.hw
    cpu,         \* Emulator.cpu
    inst_count,  \* Emulator.inst_count
    obs,         \* the last call made and what it returned
    hist         \* what the run has done so far, as far as a property speaks of it

vars == <<mem, hw, cpu, inst_count, obs, hist>>

\* the emulator as one object, and the assignment of one to the next state
Emu == [mem |-> mem, hw |-> hw, cpu |-> cpu, inst_count |-> inst_count]

Becomes(e) ==
    /\ mem' = e.mem
    /\ hw' = e.hw
    /\ cpu' = e.cpu
    /\ inst_count' = e.inst_count

Starts(e) ==
    /\ mem = e.mem
    /\ hw = e.hw
    /\ cpu = e.cpu
    /\ inst_count = e.inst_count

NoObs == [op |-> "init", addr |-> 0, value |-> 0]

NoHist ==
    [ usb_written |-> FALSE,  \* firmware wrote 0x9000 once the delay had passed
      wrote       |-> -1,     \* last byte written to obs.addr, -1 if none
      prev        |-> -1,     \* the byte written to it before that one
      reads       |-> 0,      \* reads of obs.addr since the last write
      prior       |-> 0,      \* reads of it between the two writes
      cleared     |-> FALSE,  \* a read since the last write returned bit 0 clear
      ops         |-> 0 ]     \* calls made so far

(***************************************************************************)
(* Instructions, as far as the emulator can tell them apart.               *)
(***************************************************************************)
Other(c, t)   == [op |-> "other", cycles |-> c, target |-> t]
MovxW(a, v)   == [op |-> "movx_w", cycles |-> 2, addr |-> a, value |-> v]
MovxR(a)      == [op |-> "movx_r", cycles |-> 2, addr |-> a]
MovSfr(a, v)  == [op |-> "mov_sfr", cycles |-> 2, addr |-> a, value |-> v]
Reti          == [op |-> "reti", cycles |-> 2]

StepObs == [op |-> "step", addr |-> 0, value |-> 0]

(***************************************************************************)
(* SpecClock: an emulator constructed with some usb_connect_delay runs     *)
(* firmware whose instructions take 1, 2 or 4 cycles; the firmware may     *)
(* write the USB status register.  Every mix of instruction lengths is     *)
(* explored within Window cycles of each cycle count that tick compares    *)
(* hw.cycles with; in between the firmware runs 4-cycle instructions.      *)
(***************************************************************************)
Delays == {100, 1000, 1500}

Marks(h) ==
    { k * TIMER_PERIOD : k \in 1..MaxPeriods }
        \cup { h.usb_connect_delay, h.usb_connect_delay + 2000 }

InWindow(h) ==
    \E p \in Marks(h) : p - Window <= h.cycles /\ h.cycles <= p + Window

InitClock ==
    /\ \E d \in Delays : Starts(Emulator(d))
    /\ obs = NoObs
    /\ hist = NoHist

\* an instruction that touches no XDATA and no SFR
ClockStep ==
    /\ hw.cycles <= MaxCycles
    /\ \E c \in CycleLens, t \in FwPCs :
        /\ InWindow(hw) \/ (c = 4 /\ t = PC_MAIN)
        /\ Becomes(step(Emu, Other(c, t)))
        /\ obs' = StepObs
        /\ UNCHANGED hist

\* MOVX @DPTR,A with DPTR = 0x9000
ClockWriteUsb ==
    /\ hw.cycles <= MaxCycles
    /\ InWindow(hw)
    /\ \E v \in {0, 1} :
        /\ Becomes(step(Emu, MovxW(A_USB, v)))
        /\ obs' = [op |-> "write", addr |-> A_USB, value |-> v]
        /\ hist' = [hist EXCEPT !.usb_written =
                        @ \/ hw.cycles > hw.usb_connect_delay]

NextClock == ClockStep \/ ClockWriteUsb

SpecClock == InitClock /\ [][NextClock]_vars

\* C1: at every instruction boundary at which the peripheral's cycle count
\* exceeds the configured usb_connect_delay (whatever the delay, below 1000
\* included), and until firmware itself writes 0x9000, the peripheral is
\* USB-connected and bit 7 of register 0x9000 is set.
C1_ConnectedOnceDelayPassed ==
    (hw.cycles > hw.usb_connect_delay /\ ~hist.usb_written)
        => (hw.usb_connected /\ Bit(hw.regs[A_USB], 7) = 1)

\* C2: for every k >= 1 and every mix of instruction lengths, at every
\* instruction boundary at which the cycle count is at least 1000*k the
\* periodic timer event has been raised at least k times.
C2_TimerEventEveryPeriod ==
    \A k \in 1..MaxPeriods :
        hw.cycles >= k * TIMER_PERIOD => hw.timer_events >= k

(***************************************************************************)
(* SpecIrq: an emulator with the default usb_connect_delay runs firmware   *)
(* up to the first timer period and a little beyond.  From Window cycles   *)
(* before the period on, the firmware executes any mix of plain            *)
(* instructions, writes of IE and IP and RETI, and the USB device layer    *)
(* may arm ext0 between two steps; before that it runs 4-cycle             *)
(* instructions.                                                           *)
(***************************************************************************)
usb_connect_delay == 5000

IrqFree == hw.cycles >= TIMER_PERIOD - Window /\ hw.cycles <= MaxIrqCycles

InitIrq ==
    /\ Starts(Emulator(usb_connect_delay))
    /\ obs = NoObs
    /\ hist = NoHist

IrqStep ==
    /\ hw.cycles <= MaxIrqCycles
    /\ \E c \in CycleLens :
        /\ IrqFree \/ c = 4
        /\ Becomes(step(Emu, Other(c, PC_MAIN)))
        /\ obs' = StepObs
        /\ UNCHANGED hist

\* MOV IE,#v or MOV IP,#v
IrqMovSfr ==
    /\ IrqFree
    /\ \E a \in {SFR_IE, SFR_IP} :
        \E v \in IF a = SFR_IE THEN IEValues ELSE IPValues :
            /\ Becomes(step(Emu, MovSfr(a, v)))
            /\ obs' = StepObs
            /\ UNCHANGED hist

IrqReti ==
    /\ IrqFree
    /\ cpu.rstack # <<>>
    /\ Becomes(step(Emu, Reti))
    /\ obs' = StepObs
    /\ UNCHANGED hist

\* the USB device layer arms ext0 between two step bursts
IrqInject ==
    /\ IrqFree
    /\ Becomes(trigger_ext0(Emu))
    /\ obs' = [op |-> "inject", addr |-> 0, value |-> 0]
    /\ UNCHANGED hist

NextIrq == IrqStep \/ IrqMovSfr \/ IrqReti \/ IrqInject

SpecIrq == InitIrq /\ [][NextIrq]_vars

\* EA and the source's own enable bit are set in IE
C3_Enabled(s) ==
    Bit(mem.sfr[SFR_IE], 7) = 1 /\ Bit(mem.sfr[SFR_IE], SourceBit(s)) = 1

\* no ISR of equal or higher priority than the source's is in progress
C3_Unmasked(s) ==
    \A l \in cpu.in_isr : l < Bit(mem.sfr[SFR_IP], SourceBit(s))

\* this step enters the ISR of s: the return address is pushed and the PC is
\* the source's vector, so no firmware instruction was executed
C3_VectorsTo(s) ==
    /\ Len(cpu'.rstack) = Len(cpu.rstack) + 1
    /\ cpu'.pc = Vector(s)

\* a source earlier in the canonical order is pending and may be vectored to
C3_Preceded(s) ==
    \E t \in SourceSet :
        /\ Order(t) < Order(s)
        /\ cpu.pending[t]
        /\ C3_Enabled(t)
        /\ C3_Unmasked(t)

ResetAddrs == {A_RAM, A_0AF0, A_NVME, A_USB}
ResetBytes == {1, 85}

ResetIns ==
    {Other(4, PC_MAIN), MovSfr(SFR_IE, 129)}
        \cup {MovxW(a, v) : a \in ResetAddrs, v \in ResetBytes}
        \cup {MovxR(a) : a \in ResetAddrs}

InitReset ==
    /\ Starts(Emulator(usb_connect_delay))
    /\ obs = NoObs
    /\ hist = NoHist

ResetStep ==
    /\ hist.ops < MaxOps
    /\ \E ins \in ResetIns :
        /\ Becomes(step(Emu, ins))
        /\ obs' = StepObs
        /\ hist' = [hist EXCEPT !.ops = @ + 1]

ResetCall ==
    /\ hist.ops < MaxOps
    /\ Becomes(reset(Emu))
    /\ obs' = [op |-> "reset", addr |-> 0, value |-> 0]
    /\ hist' = [hist EXCEPT !.ops = @ + 1]

\* the host reads the documented reset defaults back through read_xdata once
\* reset() has returned
ResetRead ==
    /\ obs.op \in {"reset", "read_xdata"}
    /\ hist.ops < MaxOps
    /\ \E a \in {A_0AE5, A_0AF0, A_FLASH_LO, A_FLASH_HI} :
        /\ mem' = read_xdata(mem, hw, a).mem
        /\ hw' = read_xdata(mem, hw, a).hw
        /\ obs' = [op |-> "read_xdata", addr |-> a,
                   value |-> read_xdata(mem, hw, a).value]
    /\ hist' = [hist EXCEPT !.ops = @ + 1]
    /\ UNCHANGED <<cpu, inst_count>>

NextReset == ResetStep \/ ResetCall \/ ResetRead

SpecReset == InitReset /\ [][NextReset]_vars

\* C4: right after reset(), whatever came before it, every IDATA byte is 0,
\* every SFR is 0 except SP = 0x07, every XDATA byte outside 0x7000..0x7FFF
\* is 0 except XDATA[0x0AF0] = 0x3F, every byte in 0x7000..0x7FFF is 0xFF,
\* and the instruction count is 0.
C4_ResetRestoresMemoryDefaults ==
    obs.op = "reset" =>
        /\ \A a \in IAddrs : mem.idata[a] = 0
        /\ \A a \in SAddrs : mem.sfr[a] = IF a = SFR_SP THEN 7 ELSE 0
        /\ \A a \in XAddrs :
              mem.xdata[a] = IF IsFlashBuf(a) THEN 255
                             ELSE IF a = A_0AF0 THEN 63
                             ELSE 0
        /\ inst_count = 0

\* C5: right after construction and right after every reset(), the peripheral
\* holds its defaults: 0xC009 = 0x60, 0x9000 = 0x00, 0xB296 = 0x02,
\* 0xC412 = 0x02, 0xC8D6 = 0x04, 0xCD31 = 0x01, 0xCE5D = 0xFF, 0xB480 = 0x00,
\* not USB-connected, cycle counter 0, every poll counter 0.
C5_PeripheralDefaultsAfterReset ==
    obs.op \in {"init", "reset"} =>
        /\ hw.regs[A_UART_LSR] = 96
        /\ hw.regs[A_USB] = 0
        /\ hw.regs[A_PCIE] = 2
        /\ hw.regs[A_NVME] = 2
        /\ hw.regs[A_DMA] = 4
        /\ hw.regs[A_PHY] = 1
        /\ hw.regs[A_DBG_MASK] = 255
        /\ hw.regs[A_PCIE_LNK] = 0
        /\ ~hw.usb_connected
        /\ hw.cycles = 0
        /\ \A a \in XAddrs : hw.poll_counts[a] = 0

(***************************************************************************)
(* SpecPoll: firmware polls one XDATA address, through the Memory of a     *)
(* constructed Emulator (peripheral hooks installed) or through a bare     *)
(* Memory: any sequence of write_xdata and read_xdata calls on it, with    *)
(* no clock tick once the first byte is written.                           *)
(***************************************************************************)
\* the addresses polled: plain RAM, the sync flag and another bank register,
\* the two other auto-clear registers, the timer CSRs, the link state, the
\* one-shot latch, the PHY status, a stored register, a register without a
\* default, the state flag, and the UART line status
PollAddrs ==
    { A_RAM, A_SYNC, A_BANK2, A_CMD_ENG, A_BUSY, A_TIMER0, A_TIMER1, A_TIMER2,
      A_TIMER3, A_LINK, A_INT_SYS, A_PHY, A_NVME, A_TDMA, A_0AE3, A_UART_LSR }

InitPoll ==
    /\ \E b \in BOOLEAN :
        Starts([Emulator(usb_connect_delay) EXCEPT !.mem.hooks = b])
    /\ \E a \in PollAddrs : obs = [op |-> "init", addr |-> a, value |-> 0]
    /\ hist = NoHist

\* the memory and the peripheral become what an access left
Accessed(x) == mem' = x.mem /\ hw' = x.hw

PollWrite ==
    /\ hw.write_counts[obs.addr] < MaxPolls
    /\ \E v \in Bytes :
        /\ Accessed(write_xdata(mem, hw, obs.addr, v))
        /\ obs' = [obs EXCEPT !.op = "write", !.value = v]
        /\ hist' = [hist EXCEPT !.prev = hist.wrote,
                                !.wrote = v,
                                !.prior = hist.reads,
                                !.reads = 0,
                                !.cleared = FALSE]
        /\ UNCHANGED <<cpu, inst_count>>

PollReturned(r) ==
    /\ Accessed(r)
    /\ obs' = [obs EXCEPT !.op = "read", !.value = r.value]
    /\ hist' = [hist EXCEPT !.reads = @ + 1,
                            !.cleared = @ \/ Bit(r.value, 0) = 0]

PollRead ==
    /\ hist.reads < MaxPolls
    /\ hw.poll_counts[obs.addr] < MaxPolls
    /\ PollReturned(read_xdata(mem, hw, obs.addr))
    /\ UNCHANGED <<cpu, inst_count>>

PollTicked(t) == hw' = t.hw /\ cpu' = t.cpu

\* the clock runs past the link-up and plug-in points before the firmware
\* starts its loop
PollTick ==
    /\ mem.hooks
    /\ hw.cycles = 0
    /\ hist.wrote = -1
    /\ PollTicked(tick(hw, cpu, usb_connect_delay + 1))
    /\ UNCHANGED <<mem, inst_count, obs, hist>>

NextPoll == PollWrite \/ PollRead \/ PollTick

SpecPoll == InitPoll /\ [][NextPoll]_vars

\* a read of the polled address just returned, after a write of a byte with
\* bit 0 set
PolledAfterTrigger ==
    /\ obs.op = "read"
    /\ hist.wrote # -1
    /\ Bit(hist.wrote, 0) = 1

\* C6: after a byte with bit 0 set is stored at 0x1238, the next four reads
\* return the stored byte and the fifth and every later read return it with
\* bit 0 cleared, for a bare Memory and for the Memory of an Emulator alike.
C6_SyncFlagClearsAtFifthRead ==
    (PolledAfterTrigger /\ obs.addr = A_SYNC) =>
        /\ hist.reads <= 4 => obs.value = hist.wrote
        /\ hist.reads >= SYNC_FLAG_CLEAR_AFTER => obs.value = ClearBit(hist.wrote, 0)

\* C7: in a Memory, when 0x1238 was read k times (1 <= k < 5) while bit 0 was
\* set and 0x01 is then written to it again, the next four reads return 0x01
\* and the fifth returns 0x00: the write reset the poll counter.
C7_WriteResetsSyncCounter ==
    ( /\ ~mem.hooks
      /\ obs.op = "read"
      /\ obs.addr = A_SYNC
      /\ hist.wrote = 1
      /\ hist.prev \in {1, 3}
      /\ hist.prior \in 1..4 ) =>
        /\ hist.reads <= 4 => obs.value = 1
        /\ hist.reads = SYNC_FLAG_CLEAR_AFTER => obs.value = 0

\* the auto-clear trigger registers: 0x1200..0x12FF, 0xE41C, 0xC8B8
TriggerRegister(addr) == IsBankReg(addr) \/ addr \in {A_CMD_ENG, A_BUSY}

\* C8: in an Emulator, after any write that sets bit 0 of an auto-clear
\* trigger register, the first two reads return the written value and the
\* third returns it with bit 0 cleared, however many reads came before the
\* write.
C8_TriggerClearsAtThirdRead ==
    (mem.hooks /\ PolledAfterTrigger /\ TriggerRegister(obs.addr)) =>
        /\ hist.reads <= 2 => obs.value = hist.wrote
        /\ hist.reads = POLL_CLEAR_AFTER => obs.value = ClearBit(hist.wrote, 0)

\* C9 (as amended): in an Emulator, a loop that writes a byte with bit 0 set
\* to an auto-clear trigger register and rereads it until bit 0 reads clear
\* has exited by the third read, with no clock tick or injection in between.
C9_TriggerWaitExits ==
    ( /\ mem.hooks
      /\ PolledAfterTrigger
      /\ TriggerRegister(obs.addr)
      /\ hist.reads >= POLL_CLEAR_AFTER ) => hist.cleared

\* the command-engine status was written 0x01 and its third read was the
\* first to return bit 0 clear
C9_ThirdReadExits ==
    /\ mem.hooks
    /\ obs = [op |-> "read", addr |-> A_CMD_ENG, value |-> 0]
    /\ hist.wrote = 1
    /\ hist.reads = POLL_CLEAR_AFTER
    /\ hw.poll_counts[A_CMD_ENG] = POLL_CLEAR_AFTER
    /\ hist.cleared

\* C9: in an Emulator, for every peripheral-hooked address, a loop that
\* writes a byte with bit 0 set and rereads the address until bit 0 reads
\* clear has exited by the tenth read, with no clock tick or injection in
\* between.
C9_EveryHookedWaitExits ==
    ( /\ Hooked(mem, obs.addr)
      /\ PolledAfterTrigger
      /\ hist.reads >= auto_ready_threshold ) => hist.cleared

\* C10: for each timer CSR, after a write of 0x01 the first and second reads
\* return 0x01 and every read from the fourth on returns 0x03; after a
\* following write of 0x04 reads show bit 0 and bit 1 clear.
C10_TimerCsrExpires ==
    (mem.hooks /\ obs.op = "read" /\ obs.addr \in TimerCsrAddrs) =>
        /\ (hist.wrote = 1 /\ hist.reads \in {1, 2}) => obs.value = 1
        /\ (hist.wrote = 1 /\ hist.reads >= 4) => obs.value = 3
        /\ (hist.wrote = 4 /\ hist.prev = 1) =>
              (Bit(obs.value, 0) = 0 /\ Bit(obs.value, 1) = 0)

\* timer CSR 0xCC11 was written 0x01, read until it showed expired, written
\* 0x04, and read again
C10_ExpiredThenCleared ==
    /\ mem.hooks
    /\ obs = [op |-> "read", addr |-> A_TIMER0, value |-> 4]
    /\ hist.wrote = 4
    /\ hist.prev = 1
    /\ hist.prior >= 4

\* C11: from the constructed state with no write to the address, the fifth
\* consecutive read of timer CSR 0xCC11 returns a value with bit 1 set, and
\* so does the fifth consecutive read of timer/DMA status 0xCC89.
C11_ReadyAfterFivePolls ==
    ( /\ mem.hooks
      /\ obs.op = "read"
      /\ obs.addr \in {A_TIMER0, A_TDMA}
      /\ hist.wrote = -1
      /\ hist.reads = 5 ) => Bit(obs.value, 1) = 1

(***************************************************************************)
(* SpecLatch: an emulator runs firmware through the timer periods (every   *)
(* mix of instruction lengths within Window cycles of the cycle counts     *)
(* tick compares with, 4-cycle instructions in between) while the          *)
(* system-interrupt latch 0xC806 is read through the memory at any point;  *)
(* before the first timer event the firmware may store a byte with bit 0   *)
(* clear in it.  hist.reads counts the latch reads since the last timer    *)
(* event and hist.prior those of them that returned bit 0 set.             *)
(***************************************************************************)
InitLatch ==
    /\ Starts(Emulator(usb_connect_delay))
    /\ obs = NoObs
    /\ hist = NoHist

LatchStep ==
    /\ hw.cycles <= MaxCycles
    /\ \E c \in CycleLens :
        /\ InWindow(hw) \/ c = 4
        /\ Becomes(step(Emu, Other(c, PC_MAIN)))
        /\ obs' = StepObs
        /\ hist' = IF hw'.timer_events # hw.timer_events
                   THEN [hist EXCEPT !.reads = 0, !.prior = 0]
                   ELSE hist

LatchReturned(r) ==
    /\ Accessed(r)
    /\ obs' = [op |-> "read", addr |-> A_INT_SYS, value |-> r.value]
    /\ hist' = [hist EXCEPT !.reads = @ + 1,
                            !.prior = @ + Bit(r.value, 0)]

LatchRead ==
    /\ hw.poll_counts[A_INT_SYS] < MaxLatchReads
    /\ LatchReturned(read_xdata(mem, hw, A_INT_SYS))
    /\ UNCHANGED <<cpu, inst_count>>

LatchWrite ==
    /\ hist.wrote = -1
    /\ hw.timer_events = 0
    /\ Accessed(write_xdata(mem, hw, A_INT_SYS, 4))
    /\ obs' = [op |-> "write", addr |-> A_INT_SYS, value |-> 4]
    /\ hist' = [hist EXCEPT !.wrote = 4]
    /\ UNCHANGED <<cpu, inst_count>>

NextLatch == LatchStep \/ LatchRead \/ LatchWrite

SpecLatch == InitLatch /\ [][NextLatch]_vars

C13_ConnectTickRaisesExt0 ==
    [][ /\ hw.usb_connected => hw'.usb_connected
        /\ (hw'.usb_connected /\ ~hw.usb_connected) =>
              /\ hw'.regs[A_USB] = 128
              /\ hw'.regs[A_USB_SPD] = 2
              /\ hw'.regs[A_USB_LINK] = 2
              /\ hw'.regs[A_USB_PHY] = 255
              /\ cpu'.pending["ext0"]
      ]_vars

(***************************************************************************)
(* Emulator.run (emu.py).  The while loop is taken one iteration at a      *)
(* time; obs holds the call in progress (its two limits, NoLimit for an    *)
(* argument left at None) and, once the call is over, how it ended.        *)
(***************************************************************************)
NoLimit == -1

\* "if max_cycles and ...": None and 0 are both false
Given(limit) == limit # NoLimit /\ limit # 0

\* the two limit tests at the head of the loop, "none" when neither returns
run_limit(e, max_cycles, max_instructions) ==
    IF Given(max_cycles) /\ e.cpu.cycles >= max_cycles THEN "max_cycles"
    ELSE IF Given(max_instructions) /\ e.inst_count >= max_instructions
         THEN "max_instructions"
    ELSE "none"

\* "if not self.step(): ... return 'halted'" (no breakpoint is set, so the
\* 'breakpoint' return is never taken); "none" when the loop goes round again
run_halted(e) == IF e.cpu.halted THEN "halted" ELSE "none"

\* the CPU when a failing step leaves it halted (spec.md, execution faults)
CPU_fault(c) == [c EXCEPT !.halted = TRUE]

Running(C, N) ==
    [op |-> "running", max_cycles |-> C, max_instructions |-> N, reason |-> "none"]

Returned(o, r) == [o EXCEPT !.op = "returned", !.reason = r]

Raised(o) == [o EXCEPT !.op = "raised"]

Idle == [op |-> "idle", max_cycles |-> NoLimit, max_instructions |-> NoLimit,
         reason |-> "none"]

NoRun ==
    [ calls   |-> 0,      \* run calls made
      fits    |-> TRUE,   \* the counts were within the limits given at the call
      spin    |-> 0,      \* consecutive steps of this call that left PC unchanged
      faulted |-> FALSE,  \* a step of this call failed
      after   |-> 0 ]     \* step() calls made since the call ended

(***************************************************************************)
(* SpecRun: the host calls run with every choice of limits from a small    *)
(* set (and again after it returned), the firmware executes instructions   *)
(* of 1, 2 and 4 cycles that jump to PC_MAIN or to PC_RESET (so that PC    *)
(* may stay where it is), a step may fail, and the host calls step() once  *)
(* a run is over.  No interrupt is ever pending.                           *)
(***************************************************************************)
CycleLimits == {NoLimit, 0, 6, 9}

InstLimits == {NoLimit, 0, 3}

InitRun ==
    /\ Starts(Emulator(usb_connect_delay))
    /\ obs = Idle
    /\ hist = NoRun

\* emu.run(max_cycles=C, max_instructions=N)
RunCall ==
    /\ obs.op \in {"idle", "returned"}
    /\ hist.calls < MaxCalls
    /\ \E C \in CycleLimits, N \in InstLimits :
        /\ obs' = Running(C, N)
        /\ hist' = [NoRun EXCEPT
                      !.calls = hist.calls + 1,
                      !.fits = /\ (C = NoLimit \/ cpu.cycles <= C)
                               /\ (N = NoLimit \/ inst_count <= N)]
    /\ UNCHANGED <<mem, hw, cpu, inst_count>>

\* an iteration that returns at one of the two limit tests
RunLimit ==
    /\ obs.op = "running"
    /\ run_limit(Emu, obs.max_cycles, obs.max_instructions) # "none"
    /\ obs' = Returned(obs, run_limit(Emu, obs.max_cycles, obs.max_instructions))
    /\ UNCHANGED <<mem, hw, cpu, inst_count, hist>>

\* an iteration that passes both tests and calls step()
RunIterate ==
    /\ obs.op = "running"
    /\ run_limit(Emu, obs.max_cycles, obs.max_instructions) = "none"
    /\ cpu.cycles < MaxRunCycles
    /\ \E c \in CycleLens, t \in {PC_RESET, PC_MAIN} :
        /\ Becomes(step(Emu, Other(c, t)))
        /\ obs' = IF run_halted([cpu |-> cpu']) = "none" THEN obs
                  ELSE Returned(obs, run_halted([cpu |-> cpu']))
        /\ hist' = [hist EXCEPT !.spin =
                       IF ~cpu.halted /\ t = cpu.pc THEN @ + 1 ELSE 0]

\* an iteration whose step fails and the error leaves cpu.step, Emulator.step
\* and run as an exception
RunFaultEscapes ==
    /\ obs.op = "running"
    /\ run_limit(Emu, obs.max_cycles, obs.max_instructions) = "none"
    /\ ~cpu.halted
    /\ obs' = Raised(obs)
    /\ hist' = [hist EXCEPT !.faulted = TRUE]
    /\ UNCHANGED <<mem, hw, cpu, inst_count>>

\* an iteration whose step fails and the CPU halts itself instead: cpu.step
\* returns, step() counts the instruction and returns False
RunFaultHalts ==
    /\ obs.op = "running"
    /\ run_limit(Emu, obs.max_cycles, obs.max_instructions) = "none"
    /\ ~cpu.halted
    /\ \E k \in {0} \cup CycleLens :
        Becomes(Stepped(inst_count, mem, tick(hw, CPU_fault(cpu), k)))
    /\ obs' = Returned(obs, "halted")
    /\ hist' = [hist EXCEPT !.faulted = TRUE]

\* emu.step() called by the host once the run is over
StepAfter ==
    /\ obs.op \in {"returned", "raised"}
    /\ hist.after < MaxCalls
    /\ cpu.cycles < MaxRunCycles
    /\ \E c \in CycleLens :
        Becomes(step(Emu, Other(c, PC_MAIN)))
    /\ hist' = [hist EXCEPT !.after = @ + 1]
    /\ UNCHANGED obs

NextRun ==
    RunCall \/ RunLimit \/ RunIterate \/ RunFaultEscapes \/ RunFaultHalts
        \/ StepAfter

SpecRun == InitRun /\ [][NextRun]_vars

\* C14: a run called with both limits given, C >= 1 and N >= 1, and with the
\* cycle count <= C and the instruction count <= N at the call, returns at a
\* limit with the cycle count still <= C and the instruction count still <= N.
C14_LimitsAreUpperBounds ==
    ( /\ obs.op = "returned"
      /\ obs.reason \in {"max_cycles", "max_instructions"}
      /\ obs.max_cycles >= 1
      /\ obs.max_instructions >= 1
      /\ hist.fits )
        => (cpu.cycles <= obs.max_cycles /\ inst_count <= obs.max_instructions)

\* C15: run(max_cycles=C) with a C given is a bounded iteration: every step
\* it takes moves the cycle count up, and once the count has reached C the
\* next iteration executes nothing and returns 'max_cycles'.
C15_ReturnsOnceCountReachesC ==
    [][ (obs.op = "running" /\ obs.max_cycles # NoLimit /\ ~hist'.faulted) =>
            /\ inst_count' > inst_count => cpu'.cycles > cpu.cycles
            /\ cpu.cycles >= obs.max_cycles =>
                  /\ obs' = Returned(obs, "max_cycles")
                  /\ cpu' = cpu
      ]_vars

\* C16: when a step of a run has failed, the run has returned the Fault stop
\* reason and the CPU is halted.
C16_FailedStepReturnsFault ==
    hist.faulted => (obs.op = "returned" /\ obs.reason = "Fault" /\ cpu.halted)

\* C17: a run called without limits does not go on once PC has stayed
\* unchanged for more than SpinLimit consecutive steps with no interrupt
\* pending.
C17_SpinningRunStops ==
    ( /\ obs.op = "running"
      /\ obs.max_cycles = NoLimit
      /\ obs.max_instructions = NoLimit
      /\ \A s \in SourceSet : ~cpu.pending[s] )
        => hist.spin <= SpinLimit

\* C18: one read_xdata of a peripheral-hooked address increases that address's
\* poll counter by exactly 1 and leaves every other poll counter and the
\* memory unchanged; one write_xdata of it leaves the peripheral as a single
\* HardwareState.write of the written byte does, with the memory and every
\* other poll counter unchanged.
C18_HookInvokedOncePerAccess ==
    [][ Hooked(mem, obs.addr) =>
            /\ hist'.reads = hist.reads + 1 =>
                  /\ hw'.poll_counts =
                        [hw.poll_counts EXCEPT ![obs.addr] = @ + 1]
                  /\ mem' = mem
            /\ obs'.op = "write" =>
                  /\ hw' = write(hw, obs.addr, obs'.value)
                  /\ \A a \in XAddrs \ {obs.addr} :
                        hw'.poll_counts[a] = hw.poll_counts[a]
                  /\ mem' = mem
      ]_vars

\* a hooked address was written and then read twice: its poll counter is 2
C18_TwoReadsCounted ==
    /\ Hooked(mem, obs.addr)
    /\ obs.op = "read"
    /\ hist.wrote # -1
    /\ hist.reads = 2
    /\ hw.poll_counts[obs.addr] = 2

\* C19: after any sequence of step and reset calls the peripheral's cycle
\* count equals the CPU's.
C19_ClocksAgree == hw.cycles = cpu.cycles

(***************************************************************************)
(* SpecCode: a firmware file (every choice of two byte values at the       *)
(* sampled file offsets, of 96 KB or cut short inside bank 0) is loaded    *)
(* into a fresh emulator; the host then writes SFRs (the bank register     *)
(* 0x96 and, as a register that must not matter, IE) and reads CODE.  hist *)
(* is the file that was loaded.                                            *)
(***************************************************************************)
CodeBytes == {170, 187}

FileLens == {36865, CODE_SIZE}

DpxValues == {0, 1, 2, 255}

Firmwares == [bytes : [FileOffsets -> CodeBytes], len : FileLens]

InitCode ==
    /\ \E fw \in Firmwares :
        /\ \A o \in FileOffsets : o >= fw.len => fw.bytes[o] = 170
        /\ Starts([Emulator(usb_connect_delay) EXCEPT !.mem = load_firmware(@, fw)])
        /\ hist = fw
    /\ obs = NoObs

CodeRead ==
    /\ \E a \in CAddrs :
        obs' = [op |-> "read_code", addr |-> a, value |-> read_code(mem, a)]
    /\ UNCHANGED <<mem, hw, cpu, inst_count, hist>>

CodeWriteDpx ==
    /\ \E v \in DpxValues :
        /\ mem' = write_sfr(mem, SFR_DPX, v)
        /\ obs' = [op |-> "write_sfr", addr |-> SFR_DPX, value |-> v]
    /\ UNCHANGED <<hw, cpu, inst_count, hist>>

CodeWriteIe ==
    /\ \E v \in {0, 1} :
        /\ mem' = write_sfr(mem, SFR_IE, v)
        /\ obs' = [op |-> "write_sfr", addr |-> SFR_IE, value |-> v]
    /\ UNCHANGED <<hw, cpu, inst_count, hist>>

NextCode == CodeRead \/ CodeWriteDpx \/ CodeWriteIe

SpecCode == InitCode /\ [][NextCode]_vars

\* the file offset C20 names for a read of address a under bank register dpx
C20_Offset(a, dpx) ==
    IF a >= 32768 /\ Bit(dpx, 0) = 1 THEN BANK1_FILE_BASE + (a - 32768) ELSE a

\* C20: read_code(a) returns the firmware byte at file offset a when
\* a < 0x8000 or bit 0 of SFR 0x96 is 0, and the byte at file offset
\* 0xFF6B + (a - 0x8000) when a >= 0x8000 and bit 0 is 1, whatever the other
\* bits of SFR 0x96 and the other SFRs hold.
C20_ReadCodeBanked ==
    ( /\ obs.op = "read_code"
      /\ C20_Offset(obs.addr, mem.sfr[SFR_DPX]) < hist.len )
        => obs.value = hist.bytes[C20_Offset(obs.addr, mem.sfr[SFR_DPX])]

\* with 0xAA at file offset 0x9000 and 0xBB at 0xFF6B + 0x1000, a read of
\* 0x9000 with SFR 0x96 = 0xFF returned 0xBB
C20_Bank1Read ==
    /\ obs = [op |-> "read_code", addr |-> 36864, value |-> 187]
    /\ mem.sfr[SFR_DPX] = 255
    /\ mem.sfr[SFR_IE] = 1
    /\ hist.bytes[36864] = 170
    /\ hist.bytes[BANK1_FILE_BASE + 4096] = 187

(***************************************************************************)
(* SpecBit: the bit-addressable bytes IDATA[0x20], IDATA[0x2F], IE and IP  *)
(* of a fresh emulator's memory hold one of three byte values (stored      *)
(* directly, as self.idata[a] = v); bits of them are then written and read *)
(* through write_bit and read_bit.                                         *)
(***************************************************************************)
BitAddrs == {0, 1, 7, 127, 175, 184}

BitBytes == {0, 165, 255}

\* the byte a bit address lies in: <<"idata", a>> or <<"sfr", a>>
BitHome(b) ==
    IF b < 128 THEN <<"idata", 32 + (b \div 8)>> ELSE <<"sfr", b - (b % 8)>>

InitBit ==
    /\ \E i, k \in BitBytes :
        Starts([Emulator(usb_connect_delay) EXCEPT
                  !.mem.idata[32] = i, !.mem.idata[47] = i,
                  !.mem.sfr[SFR_IE] = k, !.mem.sfr[SFR_IP] = k])
    /\ obs = NoObs
    /\ hist = NoHist

BitWrite ==
    /\ \E b \in BitAddrs, v \in {0, 1} :
        /\ mem' = write_bit(mem, b, v)
        /\ obs' = [op |-> "write_bit", addr |-> b, value |-> v]
    /\ UNCHANGED <<hw, cpu, inst_count, hist>>

BitRead ==
    /\ \E b \in BitAddrs :
        obs' = [op |-> "read_bit", addr |-> b, value |-> read_bit(mem, b)]
    /\ UNCHANGED <<mem, hw, cpu, inst_count, hist>>

NextBit == BitWrite \/ BitRead

SpecBit == InitBit /\ [][NextBit]_vars

\* the bytes of the memory as read_idata and read_sfr return them
C21_Byte(m, home) ==
    IF home[1] = "idata" THEN read_idata(m, home[2]) ELSE read_sfr(m, home[2])

C21_Homes ==
    { <<"idata", a>> : a \in IAddrs } \cup { <<"sfr", a>> : a \in SAddrs }

\* C21: write_bit(b, v) sets bit (b mod 8) of one byte (IDATA[0x20 + b/8] for
\* b < 0x80, SFR[b & 0xF8] otherwise) to v, leaves the other seven bits of
\* that byte, every other byte and everything else in the memory unchanged;
\* afterwards read_bit(b) is v and read_bit(b') is what it was for b' # b.
C21_WriteBitTouchesOneBit ==
    [][ obs'.op = "write_bit" =>
            /\ \A h \in C21_Homes, n \in 0..7 :
                  Bit(C21_Byte(mem', h), n) =
                      IF h = BitHome(obs'.addr) /\ n = obs'.addr % 8
                      THEN obs'.value
                      ELSE Bit(C21_Byte(mem, h), n)
            /\ \A h \in C21_Homes : C21_Byte(mem', h) \in 0..255
            /\ read_bit(mem', obs'.addr) = obs'.value
            /\ \A b \in BitAddrs \ {obs'.addr} :
                  read_bit(mem', b) = read_bit(mem, b)
            /\ mem'.xdata = mem.xdata /\ mem'.code = mem.code
      ]_vars

\* bit 0x01 was set in IDATA[0x20] = 0xA5 (now 0xA7) and bit 0xAF cleared in
\* IE = 0xFF (now 0x7F)
C21_BitsSetAndCleared ==
    /\ obs = [op |-> "write_bit", addr |-> 175, value |-> 0]
    /\ mem.idata[32] = 167
    /\ mem.sfr[SFR_IE] = 127
    /\ mem.idata[47] = 165

\* C22: the reads made through read_xdata right after reset() return the
\* documented defaults: 0x00 at 0x0AE5, 0x3F at 0x0AF0, and 0xFF at every
\* address of 0x7000..0x7FFF on the first and on every later read.
C22_ResetDefaultsReadBack ==
    obs.op = "read_xdata" =>
        obs.value = IF IsFlashBuf(obs.addr) THEN 255
                    ELSE IF obs.addr = A_0AF0 THEN 63
                    ELSE 0

\* C23: every read of PHY status 0xCD31 returns ready (bit 0) set and busy
\* (bit 1) clear, and the value reads return is the one they returned before
\* any write, 0x01, whatever has been written to 0xCD31.
C23_PhyStatusIgnoresWrites ==
    (mem.hooks /\ obs.op = "read" /\ obs.addr = A_PHY) =>
        /\ Bit(obs.value, 0) = 1
        /\ Bit(obs.value, 1) = 0
        /\ obs.value = 1

C25_UartLsrConstant ==
    (mem.hooks /\ obs.op = "read" /\ obs.addr = A_UART_LSR) => obs.value = 96

(***************************************************************************)
(* The USB passthrough (usb_device.py): two threads share one emulator.    *)
(* The event-loop thread serves control transfers (vendor E4 reads and E5  *)
(* writes), the bulk-transfer thread serves SCSI commands; each runs the   *)
(* firmware in bursts through run_firmware_cycles.  Here obs holds the     *)
(* lock, where each thread stands and what it was asked, hist holds the    *)
(* passthrough's own fields of the peripheral: the command descriptor      *)
(* block in regs[0x910D..0x9111], usb_cmd_pending, and the last E5 write.  *)
(***************************************************************************)
MaxUsbCycles == 6
BurstCycles == 4
MaxBursts == 2
NoAutoConnect == 999999999
OP_E4 == 228
OP_E5 == 229
OP_WRITE16 == 138
USB_STATE_CONFIGURED == 5
I_USB_STATE == 106

Threads == {"event", "bulk"}
UsbOpcodes == {OP_E4, OP_E5, OP_WRITE16}
CdbAddrs == {4096, 131071, 180224}
CdbBytes == {1, 66}
CtrlAddrs == {A_RAM, A_NVME}

\* gpio.py _asm_addr with the address cut to 16 bits instead of 17
_asm_addr_16bit(xdata_addr) == (xdata_addr % 65536) + 5242880

\* gpio.py _asm_addr: (xdata_addr & 0x1FFFF) | 0x500000
_asm_addr(xdata_addr) == (xdata_addr % 131072) + 5242880

\* the first five bytes of struct.pack('>BBBHB9x', op, b, a >> 16, a & 0xFFFF, 0)
cdb_pack(op, b, a) == <<op, b, a \div 65536, (a \div 256) % 256, a % 256>>

\* gpio.py xdata_read (op 0xE4, b the size) and xdata_write (op 0xE5, b the
\* value): the command descriptor block the host sends
xdata_cdb(op, b, xdata_addr) == cdb_pack(op, b, _asm_addr(xdata_addr))

\* _handle_scsi_command: xdata_addr = ((cdb[2] & 1) << 16) | (cdb[3] << 8) | cdb[4]
cdb_xdata_addr(cdb) == (cdb[3] % 2) * 65536 + cdb[4] * 256 + cdb[5]

\* the block a SCSI WRITE(16) carries: only its opcode matters here
HostCdb(op, b, a) == IF op = OP_WRITE16 THEN <<op, 0, 0, 0, 0>> ELSE xdata_cdb(op, b, a)

\* _handle_scsi_command, the set-up after the CDB registers are written:
\* regs[0x9000] = 0x80, idata[0x6A] = 5, IE |= 0x81, cpu._ext0_pending = True
\* (registers and XDATA bytes outside the sampled addresses are left out)
scsi_setup(e) ==
    trigger_ext0([e EXCEPT !.hw.regs[A_USB] = 128,
                           !.mem.idata[I_USB_STATE] = USB_STATE_CONFIGURED])

\* "with self._emu_lock" taken whether or not the lock is held
emu_lock_ignored(o) == TRUE

\* run_firmware_cycles: "with self._emu_lock" is entered when no thread holds it
emu_lock_free(o) == o.lock = "none"

\* _handle_e4_read: result[i] = self.emu.memory.xdata[xdata_addr + i]
e4_result(m, xdata_addr) == m.xdata[xdata_addr]

NoReq == [op |-> 0, addr |-> 0, value |-> 0, target |-> 0, bursts |-> 0]

InitUsb ==
    /\ Starts(Emulator(NoAutoConnect))
    /\ obs = [ last |-> "init", lock |-> "none",
               at |-> [t \in Threads |-> "idle"],
               req |-> [t \in Threads |-> NoReq],
               result |-> -1 ]
    /\ hist = [ usb_cmd_pending |-> FALSE,
                cdb |-> <<0, 0, 0, 0, 0>>,
                e5_addr |-> -1, e5_value |-> -1 ]

\* _handle_e5_write: self.emu.memory.write_xdata(xdata_addr, value)
CtrlE5 ==
    /\ obs.at["event"] = "idle"
    /\ \E a \in CtrlAddrs, v \in {66} :
          /\ Accessed(write_xdata(mem, hw, a, v))
          /\ hist' = [hist EXCEPT !.e5_addr = a, !.e5_value = v]
    /\ obs' = [obs EXCEPT !.last = "e5"]
    /\ UNCHANGED <<cpu, inst_count>>

\* _handle_e4_read up to its burst: the CDB is injected and EX0 armed
CtrlE4Begin ==
    /\ obs.at["event"] = "idle"
    /\ cpu.cycles < MaxUsbCycles
    /\ \E a \in CtrlAddrs :
          /\ hist' = [hist EXCEPT !.cdb = xdata_cdb(OP_E4, 1, a)]
          /\ obs' = [obs EXCEPT !.last = "e4_begin", !.at["event"] = "wait",
                                !.req["event"] = [NoReq EXCEPT !.op = OP_E4, !.addr = a, !.value = 1]]
    /\ Becomes(trigger_ext0(Emu))

\* _handle_e4_read after its burst: the bytes are read and returned
CtrlE4End ==
    /\ obs.at["event"] = "after"
    /\ obs' = [obs EXCEPT !.last = "e4", !.at["event"] = "idle",
                          !.result = e4_result(mem, obs.req["event"].addr)]
    /\ UNCHANGED <<mem, hw, cpu, inst_count, hist>>

\* _handle_scsi_command up to its first burst, on a peripheral that has the
\* endpoint buffers
BulkInject ==
    /\ obs.at["bulk"] = "idle"
    /\ cpu.cycles < MaxUsbCycles
    /\ \E op \in UsbOpcodes, a \in CdbAddrs, b \in CdbBytes :
          /\ hist' = [hist EXCEPT !.cdb = HostCdb(op, b, a), !.usb_cmd_pending = TRUE]
          /\ obs' = [obs EXCEPT !.last = "inject", !.at["bulk"] = "wait",
                                !.req["bulk"] = [NoReq EXCEPT !.op = op, !.addr = a, !.value = b,
                                                              !.bursts = MaxBursts]]
    /\ Becomes(scsi_setup(Emu))

\* _handle_scsi_command on the peripheral of hardware.py, which has no
\* usb_ep_data_buf: AttributeError once the CDB registers are written
BulkInjectRaises ==
    /\ obs.at["bulk"] = "idle"
    /\ \E op \in UsbOpcodes, a \in CdbAddrs, b \in CdbBytes :
          /\ hist' = [hist EXCEPT !.cdb = HostCdb(op, b, a)]
          /\ obs' = [obs EXCEPT !.last = "inject_raised",
                                !.req["bulk"] = [NoReq EXCEPT !.op = op, !.addr = a, !.value = b]]
    /\ UNCHANGED <<mem, hw, cpu, inst_count>>

\* _handle_scsi_command between bursts: "if not hw.usb_cmd_pending: break"
BulkAfter ==
    /\ obs.at["bulk"] = "after"
    /\ obs' = [obs EXCEPT !.last = "after",
                          !.at["bulk"] = IF hist.usb_cmd_pending /\ obs.req["bulk"].bursts > 0
                                         THEN "wait" ELSE "idle"]
    /\ UNCHANGED <<mem, hw, cpu, inst_count, hist>>

\* run_firmware_cycles: the lock is taken, max_cycles is cpu.cycles + burst
Acquire(t) ==
    /\ obs.at[t] = "wait"
    /\ emu_lock_free(obs)
    /\ obs' = [obs EXCEPT !.last = "acquire", !.lock = t, !.at[t] = "run",
                          !.req[t].target = cpu.cycles + BurstCycles,
                          !.req[t].bursts = IF @ > 0 THEN @ - 1 ELSE 0]
    /\ UNCHANGED <<mem, hw, cpu, inst_count, hist>>

\* the instructions of a burst: the firmware's completion write among them
UsbIns == {Other(2, PC_MAIN), MovxW(A_PCIE, 8)}

\* Emulator.run inside the lock: one more step while the limit is not reached
FwStep(t) ==
    /\ obs.at[t] = "run"
    /\ run_limit(Emu, obs.req[t].target, NoLimit) = "none"
    /\ \E ins \in UsbIns :
          /\ Becomes(step(Emu, ins))
          /\ obs' = [obs EXCEPT !.last = IF ins = MovxW(A_PCIE, 8) THEN "complete" ELSE "step"]
    /\ UNCHANGED hist

\* Emulator.run returns at the limit and the lock is released
Release(t) ==
    /\ obs.at[t] = "run"
    /\ run_limit(Emu, obs.req[t].target, NoLimit) # "none"
    /\ obs' = [obs EXCEPT !.last = "release", !.lock = "none", !.at[t] = "after"]
    /\ UNCHANGED <<mem, hw, cpu, inst_count, hist>>

NextUsb ==
    \/ CtrlE5
    \/ CtrlE4Begin
    \/ CtrlE4End
    \/ BulkInject
    \/ BulkInjectRaises
    \/ BulkAfter
    \/ \E t \in Threads : Acquire(t)
    \/ \E t \in Threads : FwStep(t)
    \/ \E t \in Threads : Release(t)

SpecUsb == InitUsb /\ [][NextUsb]_vars

\* C26: a thread executes emulator steps only while it holds _emu_lock, so
\* the event-loop thread and the bulk-transfer thread are never both inside
\* Emulator.run
C26_StepsUnderLock ==
    /\ \A t \in Threads : obs.at[t] = "run" => obs.lock = t
    /\ ~(obs.at["event"] = "run" /\ obs.at["bulk"] = "run")

\* one thread has stepped the firmware inside its burst while the other
\* waits for the lock
C26_BulkWaitsForEventLoop ==
    /\ obs.at["event"] = "run"
    /\ obs.at["bulk"] = "wait"
    /\ obs.lock = "event"
    /\ obs.last = "step"

\* C27: right after a command injection (vendor E4, vendor E5 or SCSI write)
\* the peripheral is USB-connected, the command-pending flag is set,
\* IDATA[0x6A] is 5, register 0x910D holds the opcode and ext0 is armed
C27_InjectionSetsUpState ==
    obs.last \in {"inject", "inject_raised"} =>
        /\ hw.usb_connected
        /\ hist.usb_cmd_pending
        /\ mem.idata[I_USB_STATE] = USB_STATE_CONFIGURED
        /\ hist.cdb[1] = obs.req["bulk"].op
        /\ cpu.pending["ext0"]

\* C28: a set command-pending flag stays set over every step but the
\* firmware's write of 0x08 to 0xB296, and is clear right after that write
C28_CompletionClearsPending ==
    [][ hist.usb_cmd_pending =>
            (hist'.usb_cmd_pending <=> obs'.last # "complete") ]_vars

\* C29: for opcode 0xE4 or 0xE5 the block in registers 0x910D.. is the
\* opcode, the size or value, and the big-endian 24-bit quantity
\* (addr & 0x1FFFF) | 0x500000, whichever of the two opcodes it is; the
\* passthrough's decoding of it returns addr & 0x1FFFF
C29_CdbRoundTrip ==
    ( /\ obs.last \in {"inject", "inject_raised"}
      /\ obs.req["bulk"].op \in {OP_E4, OP_E5} ) =>
        /\ hist.cdb[1] = obs.req["bulk"].op
        /\ hist.cdb[2] = obs.req["bulk"].value
        /\ hist.cdb[3] * 65536 + hist.cdb[4] * 256 + hist.cdb[5]
              = (obs.req["bulk"].addr % 131072) + 5242880
        /\ \A i \in 3..5 : hist.cdb[i] \in 0..255
        /\ cdb_xdata_addr(hist.cdb) = obs.req["bulk"].addr % 131072

\* an E5 write to 0x1FFFF has been injected: bytes 2..4 are 0x51 0xFF 0xFF
C29_Bit16Encoded ==
    /\ obs.last = "inject"
    /\ obs.req["bulk"].op = OP_E5
    /\ obs.req["bulk"].addr = 131071
    /\ hist.cdb = <<OP_E5, 66, 81, 255, 255>>
    /\ cdb_xdata_addr(hist.cdb) = 131071

\* C30: an E4 control read of the address of the last E5 control write
\* returns the byte written, no firmware write to it lying between, for
\* plain RAM and for hooked MMIO alike
C30_E5ThenE4ReadsBack ==
    ( /\ obs.last = "e4"
      /\ obs.req["event"].addr = hist.e5_addr ) =>
        obs.result = hist.e5_value

\* C31: the passthrough writes peripheral registers, XDATA, IDATA, IE and
\* the pending-interrupt flags only while no thread is inside a step burst:
\* an injection, an E5 write or the arming of an E4 read happens only when
\* _emu_lock is free
C31_HostWritesOutsideBursts ==
    [][ obs'.last \in {"inject", "inject_raised", "e5", "e4_begin"} =>
            obs.lock = "none" ]_vars

(***************************************************************************)
(* SpecTick: the host ticks the peripheral of an emulator built with a     *)
(* short usb_connect_delay, as test_usb_connect_event does, in calls of 1, *)
(* 100 or 1000 cycles, and steps the firmware between the ticks; 1-cycle   *)
(* ticks are explored within Window cycles of each cycle count that tick   *)
(* compares hw.cycles with.                                                *)
(***************************************************************************)
MaxTickSteps == 3
ShortDelay == 100
TickLens == {1, 100, 1000}

InitTick ==
    /\ Starts(Emulator(ShortDelay))
    /\ obs = NoObs
    /\ hist = NoHist

\* emu.hw.tick(n, emu.cpu)
TickCall ==
    /\ hw.cycles <= hw.usb_connect_delay + 2000 + Window
    /\ \E n \in TickLens :
        /\ n = 1 => InWindow(hw)
        /\ PollTicked(tick(hw, cpu, n))
        /\ obs' = [op |-> "tick", addr |-> 0, value |-> n]
    /\ UNCHANGED <<mem, inst_count, hist>>

\* emu.step() on an instruction that touches no XDATA and no SFR
TickStep ==
    /\ inst_count < MaxTickSteps
    /\ \E t \in FwPCs :
        /\ Becomes(step(Emu, Other(2, t)))
        /\ obs' = StepObs
    /\ UNCHANGED hist

\* MOVX @DPTR,A with DPTR = 0x0AE3
TickWrite ==
    /\ inst_count < MaxTickSteps
    /\ \E v \in Bytes :
        /\ Becomes(step(Emu, MovxW(A_0AE3, v)))
        /\ obs' = [op |-> "write", addr |-> A_0AE3, value |-> v]
    /\ UNCHANGED hist

NextTick == TickCall \/ TickStep \/ TickWrite

SpecTick == InitTick /\ [][NextTick]_vars

\* C32: a tick changes no architectural CPU state and no IDATA, SFR or CODE:
\* of the CPU only the pending-interrupt flags may differ after it
C32_TickLeavesCpuAlone ==
    [][ obs'.op = "tick" =>
            /\ cpu' = [cpu EXCEPT !.pending = cpu'.pending]
            /\ mem' = mem ]_vars

\* C33: once the peripheral is USB-connected, a firmware write to 0x0AE3
\* leaves the register 0, whatever byte is written and whatever it held
C33_StateFlagForcedToZero ==
    [][ (obs'.op = "write" /\ obs'.addr = A_0AE3 /\ hw.usb_connected) =>
            hw'.regs[A_0AE3] = 0 ]_vars

\* C34: a call run(max_cycles=n) or run(max_instructions=n) with n > 0, made
\* on an emulator that is not halted, executes at least one instruction: the
\* limit tests of its first iteration let it through to step()
C34_SliceMakesProgress ==
    [][ ( /\ obs.op # "running"
          /\ obs'.op = "running"
          /\ ~cpu.halted
          /\ \/ (obs'.max_cycles > 0 /\ obs'.max_instructions = NoLimit)
             \/ (obs'.max_instructions > 0 /\ obs'.max_cycles = NoLimit) ) =>
            run_limit(Emu, obs'.max_cycles, obs'.max_instructions) = "none"
      ]_vars

\* C35: for the link-state register, after a write of 0x00 or 0x01 the first
\* read returns the written byte and every later read returns 0x02 (PHY
\* ready) until the next write; a stored byte other than 0x00 / 0x01 is
\* returned by every read; and a write stores exactly the byte written
C35_LinkStateReadyOnSecondRead ==
    ( /\ Hooked(mem, A_LINK)
      /\ obs.addr = A_LINK
      /\ hist.wrote # -1 ) =>
        /\ obs.op = "write" => hw.regs[A_LINK] = obs.value
        /\ (obs.op = "read" /\ hist.wrote \in {0, 1} /\ hist.reads = 1) =>
              obs.value = hist.wrote
        /\ (obs.op = "read" /\ hist.wrote \in {0, 1} /\ hist.reads >= 2) =>
              obs.value = 2
        /\ (obs.op = "read" /\ hist.wrote \notin {0, 1}) =>
              (obs.value = hist.wrote /\ hw.regs[A_LINK] = hist.wrote)

(***************************************************************************)
(* SpecGadget: the passthrough on a running gadget.  The event-loop thread *)
(* handles SET_CONFIGURATION requests and RESET and DISCONNECT events; the *)
(* bulk threads it starts run _bulk_transfer_loop, one statement group at  *)
(* a time.  obs is the passthrough object, hist the bulk threads: where    *)
(* each stands, the tag of the CBW it is serving and the tag of the CSW it *)
(* sent for it.  A burst of firmware is two 2-cycle instructions; a burst  *)
(* is atomic because it runs under _emu_lock.                              *)
(***************************************************************************)
MaxThreads == 2
MaxGadgetCycles == 12
USB_REQ_SET_CONFIGURATION == 9
NoHandle == 0
NoThread == 0
NoTag == 0

ThreadIds == 1..MaxThreads
InLoop == {"head", "read", "handle", "csw"}

\* the transfers a read of the bulk OUT endpoint may return
Cbws ==
    { [len |-> 31, sig |-> "USBC", tag |-> 7],
      [len |-> 31, sig |-> "USBC", tag |-> 9],
      [len |-> 31, sig |-> "USBX", tag |-> 7],
      [len |-> 13, sig |-> "USBC", tag |-> 9] }

\* _bulk_transfer_loop: "if len(cbw_data) < 31: continue" and the signature test
cbw_valid(c) == c.len >= 31 /\ c.sig = "USBC"

\* a SET_CONFIGURATION that is passed to the firmware even when configured
already_configured_never(p, wValue) == FALSE

\* _handle_control_event: the test that ACKs a SET_CONFIGURATION (standard
\* request to the device, wValue > 0) without the firmware
already_configured(p, wValue) == wValue > 0 /\ p.configured

\* run_firmware_cycles(max_cycles=BurstCycles) on firmware of 2-cycle instructions
run_firmware_cycles(e) == step(step(e, Other(2, PC_MAIN)), Other(2, PC_MAIN))

\* threading.Thread.is_alive of thread i (NoThread for None)
is_alive(i) == i # NoThread /\ hist.at[i] \in InLoop

\* _enable_endpoints: "endpoints already enabled and bulk thread is running"
endpoints_reused(p) ==
    p.ep_data_in # NoHandle /\ p.ep_data_out # NoHandle /\ is_alive(p._bulk_thread)

InitGadget ==
    /\ Starts(Emulator(NoAutoConnect))
    /\ obs = [ last |-> "init", wValue |-> 0, configured |-> FALSE,
               _bulk_running |-> FALSE, _bulk_thread |-> NoThread,
               ep_data_in |-> NoHandle, ep_data_out |-> NoHandle,
               joining |-> FALSE ]
    /\ hist = [ at |-> [i \in ThreadIds |-> "unborn"],
                tag |-> [i \in ThreadIds |-> NoTag],
                sent |-> [i \in ThreadIds |-> NoTag],
                started |-> 0,
                set_ok |-> FALSE ]

\* _handle_control_event, SET_CONFIGURATION while configured: ep0_read(0)
EvSetConfigAck ==
    /\ ~obs.joining
    /\ \E w \in {0, 1} :
        /\ already_configured(obs, w)
        /\ obs' = [obs EXCEPT !.last = "ack", !.wValue = w]
    /\ UNCHANGED <<mem, hw, cpu, inst_count, hist>>

\* _handle_control_event, SET_CONFIGURATION with wValue 0: the firmware
\* handles it and nothing else changes
EvSetConfigZero ==
    /\ ~obs.joining
    /\ cpu.cycles < MaxGadgetCycles
    /\ ~already_configured(obs, 0)
    /\ Becomes(run_firmware_cycles(trigger_ext0(Emu)))
    /\ obs' = [obs EXCEPT !.last = "set_configuration", !.wValue = 0]
    /\ UNCHANGED hist

\* _handle_control_event, SET_CONFIGURATION with wValue > 0: the firmware
\* handles it, then gadget.configure(), _enable_endpoints() and, unless the
\* endpoints are reused, _start_bulk_thread()
EvSetConfig ==
    /\ ~obs.joining
    /\ cpu.cycles < MaxGadgetCycles
    /\ ~already_configured(obs, 1)
    /\ endpoints_reused(obs) \/ hist.started < MaxThreads
    /\ Becomes(run_firmware_cycles(trigger_ext0(Emu)))
    /\ IF endpoints_reused(obs)
       THEN /\ obs' = [obs EXCEPT !.last = "set_configuration", !.wValue = 1,
                                  !.configured = TRUE]
            /\ hist' = [hist EXCEPT !.set_ok = TRUE]
       ELSE /\ obs' = [obs EXCEPT !.last = "set_configuration", !.wValue = 1,
                                  !.configured = TRUE,
                                  !.ep_data_in = 1, !.ep_data_out = 1,
                                  !._bulk_running = TRUE,
                                  !._bulk_thread = hist.started + 1]
            /\ hist' = [hist EXCEPT !.set_ok = TRUE,
                                    !.started = @ + 1,
                                    !.at[hist.started + 1] = "head"]

\* _handle_control_event when handle_control_transfer raises: ep0_stall()
\* (hardware.py has no usb_controller, so hw.usb_controller raises)
EvControlRaises ==
    /\ ~obs.joining
    /\ \E w \in {0, 1} :
        /\ ~already_configured(obs, w)
        /\ obs' = [obs EXCEPT !.last = "stall", !.wValue = w]
    /\ UNCHANGED <<mem, hw, cpu, inst_count, hist>>

\* handle_events, RESET: the flags are cleared and, when the bulk thread is
\* alive, the handler waits in join(timeout=0.5)
EvReset ==
    /\ ~obs.joining
    /\ obs' = IF is_alive(obs._bulk_thread)
              THEN [obs EXCEPT !.last = "reset", !.configured = FALSE,
                               !._bulk_running = FALSE, !.joining = TRUE]
              ELSE [obs EXCEPT !.last = "reset", !.configured = FALSE,
                               !._bulk_running = FALSE,
                               !.ep_data_in = NoHandle, !.ep_data_out = NoHandle]
    /\ hist' = [hist EXCEPT !.set_ok = FALSE]
    /\ UNCHANGED <<mem, hw, cpu, inst_count>>

\* handle_events, RESET after the join: the thread has ended, or it is
\* blocked in ep_read or busy with a command and the join timed out
EvResetJoined ==
    /\ obs.joining
    /\ hist.at[obs._bulk_thread] \in {"done", "read", "handle", "csw"}
    /\ obs' = [obs EXCEPT !.last = "reset_done", !.joining = FALSE,
                          !._bulk_thread = NoThread,
                          !.ep_data_in = NoHandle, !.ep_data_out = NoHandle]
    /\ UNCHANGED <<mem, hw, cpu, inst_count, hist>>

\* handle_events, DISCONNECT
EvDisconnect ==
    /\ ~obs.joining
    /\ obs' = [obs EXCEPT !.last = "disconnect", !.configured = FALSE]
    /\ hist' = [hist EXCEPT !.set_ok = FALSE]
    /\ UNCHANGED <<mem, hw, cpu, inst_count>>

\* _bulk_transfer_loop: "while self._bulk_running and self.gadget", then the
\* wait for an OUT endpoint
LoopTest(i) ==
    /\ hist.at[i] = "head"
    /\ obs._bulk_running => obs.ep_data_out # NoHandle
    /\ hist' = [hist EXCEPT !.at[i] = IF obs._bulk_running THEN "read" ELSE "done"]
    /\ obs' = [obs EXCEPT !.last = "loop"]
    /\ UNCHANGED <<mem, hw, cpu, inst_count>>

\* gadget.ep_read(self.ep_data_out, 31) returns a transfer
EpRead(i) ==
    /\ hist.at[i] = "read"
    /\ \E c \in Cbws :
        /\ hist' = [hist EXCEPT !.at[i] = IF cbw_valid(c) THEN "handle" ELSE "head",
                                !.tag[i] = IF cbw_valid(c) THEN c.tag ELSE NoTag,
                                !.sent[i] = NoTag]
        /\ obs' = [obs EXCEPT !.last = IF cbw_valid(c) THEN "cbw" ELSE "bad_cbw"]
    /\ UNCHANGED <<mem, hw, cpu, inst_count>>

\* gadget.ep_read raises RawGadgetError: back to the loop test
EpReadRaises(i) ==
    /\ hist.at[i] = "read"
    /\ hist' = [hist EXCEPT !.at[i] = "head", !.tag[i] = NoTag, !.sent[i] = NoTag]
    /\ obs' = [obs EXCEPT !.last = "read_error"]
    /\ UNCHANGED <<mem, hw, cpu, inst_count>>

\* _handle_scsi_command returns: the command was injected and a burst run
HandleCbw(i) ==
    /\ hist.at[i] = "handle"
    /\ cpu.cycles < MaxGadgetCycles
    /\ Becomes(run_firmware_cycles(scsi_setup(Emu)))
    /\ hist' = [hist EXCEPT !.at[i] = "csw"]
    /\ obs' = [obs EXCEPT !.last = "inject"]

\* _handle_scsi_command raises (AttributeError on the peripheral of
\* hardware.py): "except Exception", back to the loop test
HandleCbwRaises(i) ==
    /\ hist.at[i] = "handle"
    /\ hist' = [hist EXCEPT !.at[i] = "head"]
    /\ obs' = [obs EXCEPT !.last = "handler_raised"]
    /\ UNCHANGED <<mem, hw, cpu, inst_count>>

\* the CSW is packed with the CBW's tag and written to the bulk IN endpoint
SendCsw(i) ==
    /\ hist.at[i] = "csw"
    /\ obs.ep_data_in # NoHandle
    /\ hist' = [hist EXCEPT !.at[i] = "head", !.sent[i] = hist.tag[i]]
    /\ obs' = [obs EXCEPT !.last = "csw"]
    /\ UNCHANGED <<mem, hw, cpu, inst_count>>

\* no CSW: ep_data_in is None, or ep_write raises RawGadgetError
SendCswFails(i) ==
    /\ hist.at[i] = "csw"
    /\ hist' = [hist EXCEPT !.at[i] = "head"]
    /\ obs' = [obs EXCEPT !.last = "csw_failed"]
    /\ UNCHANGED <<mem, hw, cpu, inst_count>>

NextGadget ==
    \/ EvSetConfigAck
    \/ EvSetConfigZero
    \/ EvSetConfig
    \/ EvControlRaises
    \/ EvReset
    \/ EvResetJoined
    \/ EvDisconnect
    \/ \E i \in ThreadIds : LoopTest(i)
    \/ \E i \in ThreadIds : EpRead(i)
    \/ \E i \in ThreadIds : EpReadRaises(i)
    \/ \E i \in ThreadIds : HandleCbw(i)
    \/ \E i \in ThreadIds : HandleCbwRaises(i)
    \/ \E i \in ThreadIds : SendCsw(i)
    \/ \E i \in ThreadIds : SendCswFails(i)

SpecGadget == InitGadget /\ [][NextGadget]_vars

\* C36: a bulk thread that received a 31-byte CBW with signature 'USBC' is
\* back at the head of its loop, about to read the next CBW, only after it
\* sent the CSW with that CBW's tag; a short transfer or one with a wrong
\* signature leaves no CSW sent and the emulator untouched
C36_OneCswPerCbw ==
    [][ \A i \in ThreadIds :
            /\ (hist.at[i] \in {"handle", "csw"} /\ hist'.at[i] = "head") =>
                  (hist'.sent[i] = hist.tag[i] /\ hist.tag[i] # NoTag)
            /\ (hist.at[i] = "read" /\ hist'.at[i] = "head") =>
                  (hist'.sent[i] = NoTag /\ Emu' = Emu)
      ]_vars

C40_OnlyCurrentThreadLoops ==
    [][ \A i \in ThreadIds :
            (hist.at[i] = "head" /\ hist'.at[i] = "read") => i = obs._bulk_thread
      ]_vars

(***************************************************************************)
(* SpecUart: the UART proxy (uart_proxy.py) reading what the device sent.  *)
(* obs.rx is the bytes waiting in the FTDI receive buffer, every sequence  *)
(* of up to MaxRx sampled bytes; the host calls _read_response,            *)
(* check_interrupts, _drain_interrupt_signals and                          *)
(* _check_for_interrupt_signal in any order.  hist holds the proxy's       *)
(* pending_interrupts and every entry ever appended to it.                 *)
(***************************************************************************)
MaxRx == 5
INT_SIGNAL == 254
UartBytes == {INT_SIGNAL, 1, 3, 66, 189}

\* s[from..], the buffer after the bytes before from were read
Rest(s, from) == SubSeq(s, from, Len(s))

\* "for i in range(6): if int_mask & (1 << i): append(i)"
mask_interrupts(int_mask) ==
    SelectSeq(<<0, 1, 2, 3, 4, 5>>, LAMBDA i : Bit(int_mask, i) = 1)

\* a response accepted whatever its second byte
complement_unchecked(byte0, byte1) == TRUE

\* _read_response: byte1 == (~byte0) & 0xFF
complement_ok(byte0, byte1) == byte1 = 255 - byte0

Answer(kind, value, rx, queued) ==
    [kind |-> kind, value |-> value, rx |-> rx, queued |-> queued]

\* _read_response with two bytes read: the verification and the return
read_pair(rx, queued) ==
    IF complement_ok(rx[1], rx[2])
    THEN Answer("value", rx[1], Rest(rx, 3), queued)
    ELSE Answer("RuntimeError", 0, Rest(rx, 3), queued)

\* _read_response on buffer rx, having queued the interrupts in queued; a
\* _read_byte_raw that finds the buffer empty ends in TimeoutError
RECURSIVE _read_response(_, _)
_read_response(rx, queued) ==
    IF Len(rx) < 2 THEN Answer("TimeoutError", 0, <<>>, queued)
    ELSE IF rx[1] = INT_SIGNAL /\ rx[2] = INT_SIGNAL
    THEN IF Len(rx) < 3 THEN Answer("TimeoutError", 0, <<>>, queued)
         ELSE _read_response(Rest(rx, 4), queued \o mask_interrupts(rx[3]))
    ELSE read_pair(rx, queued)

\* check_interrupts: the scan of the data read, from (1-based) position i
RECURSIVE check_scan(_, _, _)
check_scan(data, i, queued) ==
    IF i > Len(data) THEN queued
    ELSE IF i + 2 <= Len(data) /\ data[i] = INT_SIGNAL /\ data[i + 1] = INT_SIGNAL
    THEN check_scan(data, i + 3, Append(queued, data[i + 2]))
    ELSE check_scan(data, i + 1, queued)

\* _drain_interrupt_signals: read_data(3) until it is short or no signal
RECURSIVE _drain_interrupt_signals(_, _)
_drain_interrupt_signals(rx, queued) ==
    IF Len(rx) < 3 THEN Answer("none", 0, <<>>, queued)
    ELSE IF rx[1] = INT_SIGNAL /\ rx[2] = INT_SIGNAL
    THEN _drain_interrupt_signals(Rest(rx, 4), Append(queued, rx[3]))
    ELSE Answer("none", 0, Rest(rx, 4), queued)

\* _check_for_interrupt_signal: one read_data(3)
_check_for_interrupt_signal(rx) ==
    IF Len(rx) >= 3 /\ rx[1] = INT_SIGNAL /\ rx[2] = INT_SIGNAL
    THEN Answer("none", 0, Rest(rx, 4), mask_interrupts(rx[3]))
    ELSE Answer("none", 0, Rest(rx, 4), <<>>)

InitUart ==
    /\ Starts(Emulator(usb_connect_delay))
    /\ \E n \in 0..MaxRx : \E s \in [1..n -> UartBytes] :
          obs = [op |-> "init", kind |-> "none", value |-> 0, rx |-> s, before |-> s]
    /\ hist = [pending_interrupts |-> <<>>, placed |-> <<>>]

\* the proxy after a call that left answer r
UartReturned(op, r) ==
    /\ obs' = [op |-> op, kind |-> r.kind, value |-> r.value, rx |-> r.rx,
               before |-> obs.rx]
    /\ hist' = [pending_interrupts |-> hist.pending_interrupts \o r.queued,
                placed |-> hist.placed \o r.queued]
    /\ UNCHANGED <<mem, hw, cpu, inst_count>>

UartReadResponse ==
    /\ obs.rx # <<>>
    /\ UartReturned("_read_response", _read_response(obs.rx, <<>>))

UartDrain ==
    /\ obs.rx # <<>>
    /\ UartReturned("_drain_interrupt_signals", _drain_interrupt_signals(obs.rx, <<>>))

UartCheckSignal ==
    /\ obs.rx # <<>>
    /\ UartReturned("_check_for_interrupt_signal", _check_for_interrupt_signal(obs.rx))

\* check_interrupts: the whole buffer is read and scanned, the queue is
\* returned and emptied
UartCheckInterrupts ==
    /\ obs.rx # <<>> \/ hist.pending_interrupts # <<>>
    /\ obs' = [op |-> "check_interrupts", kind |-> "none", value |-> 0,
               rx |-> <<>>, before |-> obs.rx]
    /\ hist' = [pending_interrupts |-> <<>>,
                placed |-> hist.placed \o check_scan(obs.rx, 1, <<>>)]
    /\ UNCHANGED <<mem, hw, cpu, inst_count>>

NextUart ==
    UartReadResponse \/ UartDrain \/ UartCheckSignal \/ UartCheckInterrupts

SpecUart == InitUart /\ [][NextUart]_vars

\* the number of interrupt notifications (0xFE 0xFE mask) at the head of s
RECURSIVE C38_Signals(_)
C38_Signals(s) ==
    IF Len(s) >= 3 /\ s[1] = INT_SIGNAL /\ s[2] = INT_SIGNAL
    THEN 1 + C38_Signals(Rest(s, 4))
    ELSE 0

\* the bytes of s after its leading notifications
C38_Tail(s) == Rest(s, 3 * C38_Signals(s) + 1)

\* C38: _read_response returns v only when the device sent the pair
\* (v, ~v & 0xFF); every pair (0xFE, 0xFE) before it is consumed with one
\* mask byte and is not returned, and the response after it is still read;
\* any other pair raises the verification error and returns no value
C38_ResponseIsVerifiedPair ==
    ( /\ obs.op = "_read_response"
      /\ Len(C38_Tail(obs.before)) >= 2
      /\ ~(C38_Tail(obs.before)[1] = INT_SIGNAL /\ C38_Tail(obs.before)[2] = INT_SIGNAL) ) =>
        /\ obs.rx = Rest(C38_Tail(obs.before), 3)
        /\ obs.kind \in {"value", "RuntimeError"}
        /\ obs.kind = "value" <=>
              C38_Tail(obs.before)[2] = 255 - C38_Tail(obs.before)[1]
        /\ obs.kind = "value" => obs.value = C38_Tail(obs.before)[1]

\* the device sent a notification with mask 0x03 and then the pair
\* (0x42, 0xBD): the call returned 0x42 and queued interrupts 0 and 1
C38_ResponseAfterNotification ==
    /\ obs.op = "_read_response"
    /\ obs.before = <<INT_SIGNAL, INT_SIGNAL, 3, 66, 189>>
    /\ obs.kind = "value"
    /\ obs.value = 66
    /\ obs.rx = <<>>
    /\ hist.pending_interrupts = <<0, 1>>

\* C39: every entry ever placed in the pending-interrupt queue is an
\* interrupt number in 0..5, whichever call parsed the notification
C39_QueuedInterruptsInRange ==
    \A k \in 1..Len(hist.placed) : hist.placed[k] \in 0..5

====
